---- MODULE Spec2Model ----
(***************************************************************************)
(* A model of the weighted-ensemble iteration driver WESimManager.run()    *)
(* (src/src/wemd/sim_manager.py) together with the collaborators it calls: *)
(* the data manager (persistent store with a flush barrier), the work      *)
(* manager, the system's region set and the WE resampler.  The driver is   *)
(* translated from the source statement by statement; the collaborators,   *)
(* whose code is not part of the sources, follow their interface contract. *)
(*                                                                         *)
(* Weights are exact rationals <<numerator, denominator>>; floating-point  *)
(* rounding is not modelled.                                               *)
(***************************************************************************)
EXTENDS Integers, Sequences, FiniteSets, TLC

(* ---------------------------- bounds ----------------------------------- *)
MaxInitSegs == 3        \* segments in the first iteration of the store
MaxIterations == 2      \* largest limits.max_iterations
CrashInitSegs == 2      \* the same, in runs that may be killed and resumed
MaxRestarts == 1        \* run() invocations after the first one
MaxBinCount == 4        \* particles in a bin handed to the resampler on its own
MaxTarget == 4          \* largest target_count of such a bin
MaxIterRange == 2       \* last iteration an analysis may ask for
MaxCalls == 3           \* calls made on one binning mixin

(* ---------------------------- Python values ---------------------------- *)
None == -1000           \* Python's None where an int is optional

(* Segment.SEG_STATUS_* and Segment.SEG_ENDPOINT_TYPE_* *)
SEG_STATUS_PREPARED == "PREPARED"
SEG_STATUS_COMPLETE == "COMPLETE"
SEG_STATUS_FAILED == "FAILED"
SEG_ENDPOINT_TYPE_NOTSET == "NOTSET"
SEG_ENDPOINT_TYPE_CONTINUES == "CONTINUES"
SEG_ENDPOINT_TYPE_MERGED == "MERGED"
SEG_ENDPOINT_TYPE_RECYCLED == "RECYCLED"

(* ---------------------------- exact weights ---------------------------- *)
Abs(x) == IF x < 0 THEN -x ELSE x

RECURSIVE GCD(_, _)
GCD(a, b) == IF b = 0 THEN a ELSE GCD(b, a % b)

\* a rational in lowest terms with a positive denominator
Rat(n, d) ==
    LET g == GCD(Abs(n), d)
    IN  IF n = 0 THEN <<0, 1>> ELSE <<n \div g, d \div g>>

RZero == <<0, 1>>
RAdd(a, b) == Rat(a[1] * b[2] + b[1] * a[2], a[2] * b[2])
RDivInt(a, k) == Rat(a[1], a[2] * k)
RLess(a, b) == a[1] * b[2] < b[1] * a[2]
RLeq(a, b) == a[1] * b[2] <= b[1] * a[2]

RECURSIVE RSum(_)
RSum(ws) == IF ws = <<>> THEN RZero ELSE RAdd(Head(ws), RSum(Tail(ws)))

\* vgetattr('weight', xs): the weights of a sequence of segments/particles/bins
Weights(xs) == [i \in 1..Len(xs) |-> xs[i].weight]

RECURSIVE RMaxOf(_)
RMaxOf(ws) ==
    IF Len(ws) = 1 THEN ws[1]
    ELSE LET m == RMaxOf(Tail(ws)) IN IF RLess(m, Head(ws)) THEN Head(ws) ELSE m

RECURSIVE RMinOf(_)
RMinOf(ws) ==
    IF Len(ws) = 1 THEN ws[1]
    ELSE LET m == RMinOf(Tail(ws)) IN IF RLess(Head(ws), m) THEN Head(ws) ELSE m

IsNonZero(w) == w[1] # 0
NonZero(ws) == SelectSeq(ws, IsNonZero)

(* ---------------------------- region set ------------------------------- *)
\* The system driver's bin partition: progress coordinates 0, 1, 2 fall in
\* bins 1, 2, 3; bin 3 is a target (sink) whose particles are recycled to
\* the initial state.
Pcoords == 0..2
BinOf == [p \in Pcoords |-> p + 1]
NBins == Cardinality({BinOf[p] : p \in Pcoords})
TargetCount == <<2, 1, 0>>
IsTargetBin == <<FALSE, FALSE, TRUE>>
InitialPcoord == 0

EmptyBins == [b \in 1..NBins |-> [count |-> 0, weight |-> RZero]]

\* region_set.map_to_bins + bin.add for every particle
BinParticles(particles) ==
    [b \in 1..NBins |->
        LET f(p) == BinOf[p.pcoord] = b
            inb == SelectSeq(particles, f)
        IN  [count |-> Len(inb), weight |-> RSum(Weights(inb))]]

(* ---------------------------- particles -------------------------------- *)
\* Particle(seg_id, weight, pcoord, p_parent_id = None, parent_ids = set())
Particle(seg_id, weight, pcoord) ==
    [seg_id |-> seg_id, weight |-> weight, pcoord |-> pcoord,
     p_parent_id |-> None, parent_ids |-> {}]

\* the segment a particle descends from in the first place / all of them
PrimaryOf(p) == IF p.p_parent_id = None THEN p.seg_id ELSE p.p_parent_id
ParentsOf(p) == IF p.p_parent_id = None THEN {p.seg_id} ELSE p.parent_ids

\* recycle sentinel: the negative encoding of a recycled segment's seg_id
Sentinel(seg_id) == -(seg_id + 1)

(* ---------------------------- WE resampler ----------------------------- *)
\* Phase 1, recycle: a particle in a target bin is terminated and an
\* equal-weight particle is re-injected at the initial state.
InTarget(p) == IsTargetBin[BinOf[p.pcoord]]

Reinject(p) ==
    [seg_id |-> Sentinel(p.seg_id), weight |-> p.weight, pcoord |-> InitialPcoord,
     p_parent_id |-> None, parent_ids |-> {}]

Recycle(particles) ==
    [i \in 1..Len(particles) |->
        IF InTarget(particles[i]) THEN Reinject(particles[i]) ELSE particles[i]]

RecycledOf(particles) == SelectSeq(particles, InTarget)

\* p is picked before q when looking for the heaviest particle
Heavier(p, q) ==
    \/ RLess(q.weight, p.weight)
    \/ p.weight = q.weight /\ PrimaryOf(p) < PrimaryOf(q)

\* p is picked before q when looking for the lightest particle
Lighter(p, q) ==
    \/ RLess(p.weight, q.weight)
    \/ p.weight = q.weight /\ PrimaryOf(p) < PrimaryOf(q)

HeaviestIndex(lst) ==
    CHOOSE i \in 1..Len(lst) :
        \A j \in 1..Len(lst) \ {i} :
            Heavier(lst[i], lst[j]) \/ (~Heavier(lst[j], lst[i]) /\ i < j)

LightestIndex(lst, skip) ==
    CHOOSE i \in 1..Len(lst) \ skip :
        \A j \in 1..Len(lst) \ (skip \cup {i}) :
            Lighter(lst[i], lst[j]) \/ (~Lighter(lst[j], lst[i]) /\ i < j)

\* a quotient rounded one too high when the division is exact
CeilDiv_Up(a, b) == a \div b + 1

CeilDiv(a, b) == (a + b - 1) \div b

SplitCopy(p, k) ==
    [seg_id |-> None, weight |-> RDivInt(p.weight, k), pcoord |-> p.pcoord,
     p_parent_id |-> PrimaryOf(p), parent_ids |-> ParentsOf(p)]

\* Split: replace the heaviest particle by ceil(target/current) copies
RECURSIVE SplitBin(_, _)
SplitBin(lst, target) ==
    IF Len(lst) = 0 \/ Len(lst) >= target THEN lst
    ELSE LET i == HeaviestIndex(lst)
             k == CeilDiv(target, Len(lst))
             copies == [c \in 1..k |-> SplitCopy(lst[i], k)]
         IN  SplitBin(SubSeq(lst, 1, i - 1) \o copies \o SubSeq(lst, i + 1, Len(lst)),
                      target)

MergeOf(x, y) ==
    [seg_id |-> None, weight |-> RAdd(x.weight, y.weight), pcoord |-> y.pcoord,
     p_parent_id |-> PrimaryOf(y), parent_ids |-> ParentsOf(x) \cup ParentsOf(y)]

\* Merge: replace the two lightest particles by one; the lighter one's
\* primary segment is terminated.  Returns the list and the terminations.
RECURSIVE MergeBin(_, _, _)
MergeBin(lst, target, mt) ==
    IF Len(lst) <= target THEN [lst |-> lst, mt |-> mt]
    ELSE LET ix == LightestIndex(lst, {})
             iy == LightestIndex(lst, {ix})
             m == MergeOf(lst[ix], lst[iy])
             with == [lst EXCEPT ![iy] = m]
             rest == SubSeq(with, 1, ix - 1) \o SubSeq(with, ix + 1, Len(with))
             gone == IF PrimaryOf(lst[ix]) >= 0 THEN {PrimaryOf(lst[ix])} ELSE {}
         IN  MergeBin(rest, target, mt \cup gone)

\* Phase 2 for one bin
ResampleBin(b, lst) ==
    IF IsTargetBin[b] \/ TargetCount[b] = 0 THEN [lst |-> lst, mt |-> {}]
    ELSE IF Len(lst) < TargetCount[b] THEN [lst |-> SplitBin(lst, TargetCount[b]), mt |-> {}]
    ELSE MergeBin(lst, TargetCount[b], {})

RECURSIVE ConcatBins(_, _)
ConcatBins(perbin, b) ==
    IF b > NBins THEN <<>> ELSE perbin[b].lst \o ConcatBins(perbin, b + 1)

\* we_driver.run_we(particles, region_set) and the attributes it leaves
run_we(particles) ==
    LET after == Recycle(particles)
        gone == RecycledOf(particles)
        perbin == [b \in 1..NBins |->
                     LET f(p) == BinOf[p.pcoord] = b
                     IN  ResampleBin(b, SelectSeq(after, f))]
        next == ConcatBins(perbin, 1)
    IN  [next_iter_particles |-> next,
         recycle_terminations |-> {gone[i].seg_id : i \in 1..Len(gone)},
         merge_terminations |-> UNION {perbin[b].mt : b \in 1..NBins},
         n_recycled |-> Len(gone),
         P_recycled |-> RSum(Weights(gone)),
         bins |-> BinParticles(next)]

(* ---------------------------- segments --------------------------------- *)
\* Segment(seg_id, weight, pcoord, status): pcoord0 is pcoord[0], pcoord1 is
\* pcoord[-1], which the propagator fills in.
Segment(seg_id, weight, pcoord, status) ==
    [seg_id |-> seg_id, weight |-> weight, pcoord0 |-> pcoord, pcoord1 |-> None,
     status |-> status, p_parent_id |-> None, parent_ids |-> {}, n_parents |-> 0,
     endpoint_type |-> SEG_ENDPOINT_TYPE_NOTSET]

(* ---------------------------- data manager ----------------------------- *)
ZeroSummary ==
    [n_particles |-> 0, norm |-> RZero, min_bin_prob |-> RZero, max_bin_prob |-> RZero,
     min_seg_prob |-> RZero, max_seg_prob |-> RZero, target_flux |-> RZero,
     target_hits |-> 0]

\* data_manager.update_segments(n_iter, segments)
update_segments(st, n, segs) == [st EXCEPT !.iters[n] = segs]

\* data_manager.update_iter_summary(n_iter, iter_summary)
update_iter_summary(st, n, summ) == [st EXCEPT !.summary[n] = summ]

\* data_manager.write_bin_data(n_iter, bin_counts, bin_probs)
write_bin_data(st, n, b) == [st EXCEPT !.bin_data[n] = b]

\* data_manager.write_recycling_data(n_iter, recycle_from)
write_recycling_data(st, n, r) == [st EXCEPT !.recycling[n] = r]

\* the seg_ids the store assigns to the segments of a new iteration: 0..K-1
WithSegIds(segs) == [i \in 1..Len(segs) |-> [segs[i] EXCEPT !.seg_id = i - 1]]

\* data_manager.prepare_iteration(n_iter, segments, ...): the iteration group
\* with its segment table, and empty summary, bin and recycling records
dm_prepare_iteration(st, n, segs) ==
    [st EXCEPT !.iters = (n :> WithSegIds(segs)) @@ @,
               !.summary = (n :> ZeroSummary) @@ @,
               !.bin_data = (n :> EmptyBins) @@ @,
               !.recycling = (n :> <<0, RZero>>) @@ @]

(* ---------------------------- driver: pure steps ----------------------- *)
\* limits.max_iterations taken as a number of iterations still to run
MaxIter_Relative(current, configured) ==
    IF configured = None THEN current + 1 ELSE current + configured

\* line 105: limits.max_iterations, by default one past the current iteration
MaxIter(current, configured) ==
    IF configured = None THEN current + 1 ELSE configured

\* an assertion that rejects only an ensemble made of zero weights alone
ZeroWeightPresent_All(segs) == \A i \in 1..Len(segs) : segs[i].weight[1] = 0

\* lines 121-122: the condition the assertion rejects
ZeroWeightPresent(segs) == \E i \in 1..Len(segs) : segs[i].weight[1] = 0

\* a test that takes failed segments for segments still to run
AllPrepared_OrFailed(segs) ==
    \A i \in 1..Len(segs) : segs[i].status \in {SEG_STATUS_PREPARED, SEG_STATUS_FAILED}

AllPrepared(segs) == \A i \in 1..Len(segs) : segs[i].status = SEG_STATUS_PREPARED

\* lines 139-141: one particle for each segment, at its start point
StartParticles(segs) ==
    [i \in 1..Len(segs) |-> Particle(segs[i].seg_id, segs[i].weight, segs[i].pcoord0)]

\* lines 134-145: bin on the segments' initial points if every bin is empty
InitialBinning(bins, segs) ==
    IF \A b \in 1..NBins : bins[b].count = 0
    THEN BinParticles(StartParticles(segs))
    ELSE bins

\* math.log(max/min) raises ValueError unless the ratio is positive
LogDefined(mx, mn) == (mx[1] > 0 /\ mn[1] > 0) \/ (mx[1] < 0 /\ mn[1] < 0)

\* lines 148-158: the statistics can be computed without an exception
StatsComputable(segs, bins) ==
    /\ NonZero(Weights(segs)) # <<>>
    /\ NonZero(Weights(bins)) # <<>>
    /\ LogDefined(RMaxOf(Weights(segs)), RMinOf(NonZero(Weights(segs))))
    /\ LogDefined(RMaxOf(Weights(bins)), RMinOf(NonZero(Weights(bins))))
    /\ \E b \in 1..NBins : TargetCount[b] # 0

\* lines 169-177
StatsSummary(summ, segs, bins, norm) ==
    [summ EXCEPT !.n_particles = Len(segs), !.norm = norm,
                 !.min_bin_prob = RMinOf(NonZero(Weights(bins))),
                 !.max_bin_prob = RMaxOf(Weights(bins)),
                 !.min_seg_prob = RMinOf(NonZero(Weights(segs))),
                 !.max_seg_prob = RMaxOf(Weights(segs))]

\* work_manager.propagate(segments): every PREPARED segment ends COMPLETE,
\* with its endpoint computed by the propagator, or FAILED
Propagated(segs, dynamics, failing) ==
    [i \in 1..Len(segs) |->
        IF segs[i].status # SEG_STATUS_PREPARED THEN segs[i]
        ELSE IF i \in failing THEN [segs[i] EXCEPT !.status = SEG_STATUS_FAILED]
        ELSE [segs[i] EXCEPT !.status = SEG_STATUS_COMPLETE,
                             !.pcoord1 = dynamics[segs[i].pcoord0]]]

\* a verification that takes only segments never run for failed ones
failed_segments_OnlyPrepared(segs) ==
    {i \in 1..Len(segs) : segs[i].status = SEG_STATUS_PREPARED}

\* line 202
failed_segments(segs) ==
    {i \in 1..Len(segs) : segs[i].status # SEG_STATUS_COMPLETE}

\* lines 213-217
EndpointParticles(segs) ==
    [i \in 1..Len(segs) |-> Particle(segs[i].seg_id, segs[i].weight, segs[i].pcoord1)]

\* segments[seg_id] of a Python list: 0-based, negative indices from the end
PyIndex(len, i) == IF i >= 0 THEN i + 1 ELSE len + i + 1
IndexOK(len, i) == PyIndex(len, i) \in 1..len

\* the assignment with the loops of lines 261-266 in the other order
AssignEndpointTypes_RecycledLast(segs, recycle_terminations, merge_terminations) ==
    LET rec == {PyIndex(Len(segs), s) : s \in recycle_terminations}
        mer == {PyIndex(Len(segs), s) : s \in merge_terminations}
    IN  [i \in 1..Len(segs) |->
            [segs[i] EXCEPT !.endpoint_type =
                IF i \in rec THEN SEG_ENDPOINT_TYPE_RECYCLED
                ELSE IF i \in mer THEN SEG_ENDPOINT_TYPE_MERGED
                ELSE SEG_ENDPOINT_TYPE_CONTINUES]]

\* the assignment without the loop over merge_terminations
AssignEndpointTypes_NoMerged(segs, recycle_terminations, merge_terminations) ==
    LET rec == {PyIndex(Len(segs), s) : s \in recycle_terminations}
    IN  [i \in 1..Len(segs) |->
            [segs[i] EXCEPT !.endpoint_type =
                IF i \in rec THEN SEG_ENDPOINT_TYPE_RECYCLED
                ELSE SEG_ENDPOINT_TYPE_CONTINUES]]

\* lines 258-266, in the order of the three loops
AssignEndpointTypes(segs, recycle_terminations, merge_terminations) ==
    LET rec == {PyIndex(Len(segs), s) : s \in recycle_terminations}
        mer == {PyIndex(Len(segs), s) : s \in merge_terminations}
    IN  [i \in 1..Len(segs) |->
            [segs[i] EXCEPT !.endpoint_type =
                IF i \in mer THEN SEG_ENDPOINT_TYPE_MERGED
                ELSE IF i \in rec THEN SEG_ENDPOINT_TYPE_RECYCLED
                ELSE SEG_ENDPOINT_TYPE_CONTINUES]]

\* the orders in which a for loop may visit a set: the interpreter hands the
\* elements out by their place in the hash table, which depends on how the set
\* was built (the order of the insertions, collisions, removals)
Orders(S) ==
    { q \in [1..Cardinality(S) -> S] : \A x \in S : \E i \in DOMAIN q : q[i] = x }

\* one of the loops of lines 261-266, up to the first seg_id that is no index
\* of the list
RECURSIVE TypeWhileValid(_, _, _)
TypeWhileValid(segs, ids, type) ==
    IF ids = <<>> THEN [segs |-> segs, ok |-> TRUE]
    ELSE IF ~IndexOK(Len(segs), Head(ids)) THEN [segs |-> segs, ok |-> FALSE]
    ELSE TypeWhileValid([segs EXCEPT ![PyIndex(Len(segs), Head(ids))].endpoint_type = type],
                        Tail(ids), type)

\* lines 258-266 when a seg_id is out of range: the segments as the loops
\* leave them when IndexError is raised, the sets visited in the orders given
AssignUntilIndexError(segs, recycle_order, merge_order) ==
    LET s0 == [i \in 1..Len(segs) |->
                  [segs[i] EXCEPT !.endpoint_type = SEG_ENDPOINT_TYPE_CONTINUES]]
        r == TypeWhileValid(s0, recycle_order, SEG_ENDPOINT_TYPE_RECYCLED)
    IN  IF ~r.ok THEN r.segs
        ELSE TypeWhileValid(r.segs, merge_order, SEG_ENDPOINT_TYPE_MERGED).segs

\* the assertions without the one of line 295
ParticleAccepted_NoneAmongParents(p) ==
    IF p.p_parent_id = None
    THEN Cardinality(p.parent_ids) = 0 /\ p.seg_id # None
    ELSE Cardinality(p.parent_ids) > 0 /\ p.seg_id = None

\* lines 286-296: the assertions on one particle
ParticleAccepted(p) ==
    IF p.p_parent_id = None
    THEN Cardinality(p.parent_ids) = 0 /\ p.seg_id # None
    ELSE Cardinality(p.parent_ids) > 0 /\ None \notin p.parent_ids /\ p.seg_id = None

\* a materialization that leaves out the count of line 300
NewSegment_NoCount(p) ==
    LET seg == Segment(None, p.weight, p.pcoord, SEG_STATUS_PREPARED)
        pp == IF p.p_parent_id = None THEN p.seg_id ELSE p.p_parent_id
        par == IF p.p_parent_id = None THEN {p.seg_id} ELSE p.parent_ids
    IN  [seg EXCEPT !.p_parent_id = pp, !.parent_ids = par]

\* a new segment that takes its particle's weight shared among the parents
NewSegment_ParentShare(p) ==
    LET par == IF p.p_parent_id = None THEN {p.seg_id} ELSE p.parent_ids
        seg == Segment(None, RDivInt(p.weight, Cardinality(par)), p.pcoord,
                       SEG_STATUS_PREPARED)
        pp == IF p.p_parent_id = None THEN p.seg_id ELSE p.p_parent_id
    IN  [seg EXCEPT !.p_parent_id = pp, !.parent_ids = par,
                    !.n_parents = Cardinality(par)]

\* lines 280-300: the new segment of one particle
NewSegment(p) ==
    LET seg == Segment(None, p.weight, p.pcoord, SEG_STATUS_PREPARED)
        pp == IF p.p_parent_id = None THEN p.seg_id ELSE p.p_parent_id
        par == IF p.p_parent_id = None THEN {p.seg_id} ELSE p.parent_ids
    IN  [seg EXCEPT !.p_parent_id = pp, !.parent_ids = par,
                    !.n_parents = Cardinality(par)]

\* lines 276-301
NewSegments(particles) == [i \in 1..Len(particles) |-> NewSegment(particles[i])]

(* ---------------------------- one bin resampled ------------------------ *)
\* no bin given yet
NoBinCall == [stage |-> "none", lst |-> <<>>, target |-> 0, out |-> <<>>, mt |-> {}]

\* weights of the endpoint particles found in the bin
BinWeights == { <<w, 1>> : w \in 1..3 }

\* the particles of a bin before resampling: endpoints of segments 0..c-1
BinInput(ws) == [i \in 1..Len(ws) |-> Particle(i - 1, ws[i], InitialPcoord)]

(* ---------------------------- region sets for analysis ----------------- *)
\* lines 88-90: the region set types update_region_set() knows
rsets == {"RectilinearRegionSet", "PiecewiseRegionSet", "VoronoiRegionSet"}

\* bin boundaries, one list for each dimension of the progress coordinate
Boundaries == { <<<<0, 1>>>>, <<<<0, 1, 2>>>>, <<<<0, 1>>, <<0, 1, 2>>>> }

\* a list of boundaries that is not a list of lists
FlatBoundaries == <<0, 1, 2>>

\* None where a region set is expected, and where its hash is
NoRegionSet == [type |-> "NoneType", bounds |-> <<>>]
NoHash == [digest |-> <<>>]

\* None where the handle of the binning group is expected
NoHandle == "None"

\* what a call leaves: the value returned, or the exception raised with the
\* parts of its message
Returned(value) == [value |-> value, exc |-> "none", msg |-> <<>>]
Raised(exc, msg) == [value |-> NoRegionSet, exc |-> exc, msg |-> msg]

\* a region set of one of the types, made from its arguments; a boundary
\* that is a number has no length
MakeRegionSet(rs_type, args) ==
    IF args \in Boundaries
    THEN Returned([type |-> rs_type, bounds |-> args])
    ELSE Raised("TypeError", <<"object of type 'int' ", "has no len", "()">>)

\* len(region_set.get_all_bins())
RECURSIVE CellsUpTo(_, _)
CellsUpTo(bounds, d) ==
    IF d = 0 THEN 1 ELSE (Len(bounds[d]) - 1) * CellsUpTo(bounds, d - 1)
NumBins(rs) == CellsUpTo(rs.bounds, Len(rs.bounds))

\* region_set.n_dim
NDim(rs) == Len(rs.bounds)

\* region_set.identity_hash(): one value for each partition
identity_hash(rs) == [digest |-> <<rs.type, rs.bounds>>]

\* system.new_region_set()
SystemRegionSet == [type |-> "RectilinearRegionSet", bounds |-> <<<<0, 1, 2>>>>]

\* the expressions given as --binexpr
BinExprs == {"[[0,1]]", "[[0,1],[0,1,2]]", "[0,1,2]", "[[0,1+'a']]", "[[0,1"}

\* eval(expr, namespace)
Eval(expr) ==
    CASE expr = "[[0,1]]" -> Returned(<<<<0, 1>>>>)
      [] expr = "[[0,1],[0,1,2]]" -> Returned(<<<<0, 1>>, <<0, 1, 2>>>>)
      [] expr = "[0,1,2]" -> Returned(FlatBoundaries)
      [] expr = "[[0,1+'a']]" ->
            Raised("TypeError", <<"unsupported operand type(s) for +: ", "'int' and 'str'">>)
      [] expr = "[[0,1" -> Raised("SyntaxError", <<"unexpected EOF while parsing">>)

\* 'has no len' in str(e)
HasNoLen(msg) == \E i \in 1..Len(msg) : msg[i] = "has no len"

\* lines 70-81: the TypeError handler raises ValueError for a message with
\* 'has no len' and otherwise falls off the end of the function
region_set_from_expr(expr) ==
    LET e == Eval(expr)
        r == IF e.exc = "none" THEN MakeRegionSet("RectilinearRegionSet", e.value) ELSE e
    IN  IF r.exc = "TypeError"
        THEN IF HasNoLen(r.msg)
             THEN Raised("ValueError", <<"invalid bin boundary specification">>)
             ELSE Returned(NoRegionSet)
        ELSE r

(* ---------------------------- binning mixin ---------------------------- *)
\* lines 15-25, for class BinningMixin or BFBinningMixin (bf), with the range
\* of iterations of the analysis and, for the record, the calls made: how
\* many, the last one, the exception it raised, what region_set_from_expr
\* left and the rs_type last given to update_region_set
NewMixin ==
    [region_set |-> NoRegionSet, n_bins |-> None, n_dim |-> None,
     discard_bin_assignments |-> FALSE, binning_h5group |-> NoHandle,
     region_set_hash |-> NoHash,
     bf |-> FALSE, first_iter |-> 1, last_iter |-> 1,
     calls |-> 0, last |-> "none", raised |-> "none", from_expr |-> Raised("not called", <<>>),
     rs_type |-> ""]

\* the analysis file without a binning group
NoGroup == [exists |-> FALSE, datasets |-> {}, binhash |-> <<>>, iter_range |-> <<>>]

\* lines 54-56, shared by process_args and update_region_set
WithRegionSet(self, rs) ==
    [self EXCEPT !.region_set = rs, !.n_bins = NumBins(rs), !.n_dim = NDim(rs),
                 !.region_set_hash = identity_hash(rs)]

\* lines 45-60; args is the parsed command line
process_args(self, args) ==
    LET r == IF args.binexpr # "" THEN region_set_from_expr(args.binexpr)
             ELSE Returned(SystemRegionSet)
        seen == [self EXCEPT !.from_expr = IF args.binexpr # "" THEN r ELSE @]
    IN  IF r.exc # "none" THEN [seen EXCEPT !.raised = r.exc]
        ELSE IF r.value = NoRegionSet
        THEN [seen EXCEPT !.region_set = NoRegionSet, !.raised = "AttributeError"]
        ELSE [WithRegionSet(seen, r.value) EXCEPT
                 !.discard_bin_assignments = args.discard_bin_assignments]

\* an update that stores the new region set without its hash
update_region_set_StaleHash(self, rs_type, args) ==
    IF rs_type \notin rsets THEN [self EXCEPT !.raised = "ValueError"]
    ELSE LET r == MakeRegionSet(rs_type, args)
         IN  IF r.exc # "none" THEN [self EXCEPT !.raised = r.exc]
             ELSE [self EXCEPT !.region_set = r.value, !.n_bins = NumBins(r.value),
                               !.n_dim = NDim(r.value)]

\* lines 83-102
update_region_set(self, rs_type, args) ==
    IF rs_type \notin rsets THEN [self EXCEPT !.raised = "ValueError"]
    ELSE LET r == MakeRegionSet(rs_type, args)
         IN  IF r.exc # "none" THEN [self EXCEPT !.raised = r.exc]
             ELSE WithRegionSet(self, r.value)

\* lines 119-122; o is the mixin and the analysis file
require_binning_group(o) ==
    IF o.self.binning_h5group = NoHandle
    THEN [self |-> [o.self EXCEPT !.binning_h5group = "binning"],
          file |-> IF o.file.exists THEN o.file ELSE [NoGroup EXCEPT !.exists = TRUE]]
    ELSE o

\* lines 124-126: the handle is reset before the group is deleted, and
\* deleting a group that is not there raises
delete_binning_group(o) ==
    IF o.file.exists
    THEN [self |-> [o.self EXCEPT !.binning_h5group = NoHandle], file |-> NoGroup]
    ELSE [self |-> [o.self EXCEPT !.binning_h5group = NoHandle, !.raised = "KeyError"],
          file |-> o.file]

\* lines 132-134: the answer, or the exception of None.digest()
check_data_binhash(self, group) ==
    IF self.region_set_hash = NoHash
    THEN [exc |-> "AttributeError", value |-> FALSE]
    ELSE [exc |-> "none", value |-> group.binhash = self.region_set_hash.digest]

\* check_data_iter_range_least(): the range recorded covers the one asked for
check_data_iter_range_least(self, group) ==
    /\ group.iter_range # <<>>
    /\ group.iter_range[1] <= self.first_iter
    /\ group.iter_range[2] >= self.last_iter

\* lines 136-172. Without n_bins the array of line 145 cannot be made; without
\* a region set the mapping of line 156 raises; a dataset that exists cannot
\* be created again (lines 164, 165); without a hash line 170 raises after the
\* range is recorded on the group
assign_to_bins(o) ==
    LET g == require_binning_group(o)
    IN  IF g.self.n_bins = None THEN [g EXCEPT !.self.raised = "TypeError"]
        ELSE IF g.self.region_set = NoRegionSet
        THEN [g EXCEPT !.self.raised = "AttributeError"]
        ELSE IF "bin_assignments" \in g.file.datasets
        THEN [g EXCEPT !.self.raised = "ValueError"]
        ELSE IF "bin_populations" \in g.file.datasets
        THEN [g EXCEPT !.file.datasets = @ \cup {"bin_assignments"},
                       !.self.raised = "ValueError"]
        ELSE IF g.self.region_set_hash = NoHash
        THEN [g EXCEPT !.file.datasets = @ \cup {"bin_assignments", "bin_populations"},
                       !.file.iter_range = <<g.self.first_iter, g.self.last_iter>>,
                       !.self.raised = "AttributeError"]
        ELSE [g EXCEPT !.file.datasets = @ \cup {"bin_assignments", "bin_populations"},
                       !.file.iter_range = <<g.self.first_iter, g.self.last_iter>>,
                       !.file.binhash = g.self.region_set_hash.digest]

\* lines 128-130, with the binning group as h5object: the digest is asked for
\* first, of a hash that may be None, then the attribute is set on a handle
\* that may be None
record_data_binhash(o) ==
    IF o.self.region_set_hash = NoHash \/ o.self.binning_h5group = NoHandle
    THEN [o EXCEPT !.self.raised = "AttributeError"]
    ELSE [o EXCEPT !.file.binhash = o.self.region_set_hash.digest]

\* lines 205-233, BFBinningMixin: without n_bins the dtype of line 215 is the
\* object dtype, which no dataset can have, so line 212 raises before the
\* dataset exists; else the dataset is created (line 212) before the mapping
\* of line 225 and the hash of line 233 are asked for
BF_assign_to_bins(o) ==
    LET g == require_binning_group(o)
    IN  IF g.self.n_bins = None THEN [g EXCEPT !.self.raised = "TypeError"]
        ELSE IF "bin_assignments" \in g.file.datasets
        THEN [g EXCEPT !.self.raised = "ValueError"]
        ELSE IF g.self.region_set = NoRegionSet \/ g.self.region_set_hash = NoHash
        THEN [g EXCEPT !.file.datasets = @ \cup {"bin_assignments"},
                       !.self.raised = "AttributeError"]
        ELSE [g EXCEPT !.file.datasets = @ \cup {"bin_assignments"},
                       !.file.binhash = g.self.region_set_hash.digest]

\* a test that does not look at the hash recorded
do_assign_NoHash(self, group) ==
    [exc |-> "none",
     value |-> \/ self.discard_bin_assignments
               \/ "bin_assignments" \notin group.datasets
               \/ ~check_data_iter_range_least(self, group)]

\* lines 176-187: the assignments are to be computed again; the hash is
\* looked at only when the tests before it pass
do_assign(self, group) ==
    IF \/ self.discard_bin_assignments
       \/ "bin_assignments" \notin group.datasets
       \/ ~check_data_iter_range_least(self, group)
    THEN [exc |-> "none", value |-> TRUE]
    ELSE LET c == check_data_binhash(self, group)
         IN  [exc |-> c.exc, value |-> ~c.value]

\* lines 237-245, BFBinningMixin
BF_do_assign(self, group) ==
    IF \/ self.discard_bin_assignments
       \/ "bin_assignments" \notin group.datasets
    THEN [exc |-> "none", value |-> TRUE]
    ELSE LET c == check_data_binhash(self, group)
         IN  [exc |-> c.exc, value |-> ~c.value]

\* lines 174-193
require_bin_assignments(o) ==
    LET g == require_binning_group(o)
        d == do_assign(g.self, g.file)
    IN  IF d.exc # "none" THEN [g EXCEPT !.self.raised = d.exc]
        ELSE IF d.value
        THEN LET gone == delete_binning_group(g)
             IN  IF gone.self.raised # "none" THEN gone ELSE assign_to_bins(gone)
        ELSE g

\* lines 235-249, BFBinningMixin
BF_require_bin_assignments(o) ==
    LET g == require_binning_group(o)
        d == BF_do_assign(g.self, g.file)
    IN  IF d.exc # "none" THEN [g EXCEPT !.self.raised = d.exc]
        ELSE IF d.value
        THEN LET gone == delete_binning_group(g)
             IN  IF gone.self.raised # "none" THEN gone ELSE BF_assign_to_bins(gone)
        ELSE g

(* ---------------------------- driver loading --------------------------- *)
\* an object as the attribute of self that holds it sees it: what it is a
\* driver for and the class (or external name) it was made from
Object(kind, cls) == [kind |-> kind, cls |-> cls]

NoObject == Object("None", "None")

\* lines 20-23: __init__ leaves both attributes None; no load_* called yet
NoHandles == [we_driver |-> NoObject, work_manager |-> NoObject,
              we_name |-> "", wm_name |-> ""]

\* values of drivers.we_driver and of the work manager's name
WEDriverNames == {"default", "DEFAULT", "custom_we"}
WorkManagerNames == {"serial", "processes", "threads", "default", "tcpip", "custom_wm"}

\* str.lower() on the names above
Lower(name) == IF name = "DEFAULT" THEN "default" ELSE name

\* lines 40-47
load_we_driver(self, drivername) ==
    IF Lower(drivername) = "default"
    THEN [self EXCEPT !.we_driver = Object("we_driver", "WEMDWEDriver"),
                      !.we_name = drivername]
    ELSE [self EXCEPT !.work_manager = Object("we_driver", drivername),
                      !.we_name = drivername]

\* lines 49-68
load_work_manager(self, drivername) ==
    LET cls == IF Lower(drivername) = "serial" THEN "SerialWorkManager"
               ELSE IF Lower(drivername) = "processes" THEN "ProcessWorkManager"
               ELSE IF Lower(drivername) \in {"threads", "default"}
                    THEN "ThreadedWorkManager"
               ELSE IF Lower(drivername) = "tcpip" THEN "TCPWorkManager"
               ELSE drivername
    IN  [self EXCEPT !.work_manager = Object("work_manager", cls),
                     !.wm_name = drivername]

(* ---------------------------- inputs ----------------------------------- *)
\* propagator dynamics: where a segment started at a pcoord ends
Dynamics == { <<1, 2, 0>>, <<0, 1, 1>>, <<2, 1, 0>> }
Dyn(f) == [p \in Pcoords |-> f[p + 1]]

\* wall time one propagate() call may take
Durations == {1}

\* limits.max_wallclock: unset, zero, or a budget in time units
WallclockOptions == {None, 0, 2}

\* weights a segment of the first iteration may be stored with
InitWeights == { <<w, 1>> : w \in {-1, 0, 1, 2} }

\* the segments of the first iteration, as the simulation's initialisation
\* stores them: dense seg_ids, PREPARED, started from initial state 0
InitSegment(i, w, p) ==
    [Segment(i - 1, w, p, SEG_STATUS_PREPARED) EXCEPT
        !.p_parent_id = Sentinel(0), !.parent_ids = {Sentinel(0)}, !.n_parents = 1]

\* the initial segments are listed by start point, then by weight
InitOrdered(ws, ps) ==
    \A i \in 1..(Len(ws) - 1) :
        \/ ps[i] < ps[i + 1]
        \/ ps[i] = ps[i + 1] /\ RLeq(ws[i], ws[i + 1])

InitStore(segs) ==
    [current_iteration |-> 1,
     iters |-> (1 :> segs),
     summary |-> (1 :> ZeroSummary),
     bin_data |-> (1 :> EmptyBins),
     recycling |-> (1 :> <<0, RZero>>)]

NoWE ==
    [next_iter_particles |-> <<>>, recycle_terminations |-> {}, merge_terminations |-> {},
     n_recycled |-> 0, P_recycled |-> RZero, bins |-> EmptyBins]

(* ---------------------------- state ------------------------------------ *)
VARIABLES
    pc,                 \* position of the driver in run()
    is_server,          \* work_manager.is_server()
    runtime_config,     \* limits.max_iterations and limits.max_wallclock
    dynamics,           \* the propagator
    now,                \* time.time()
    run_killtime, iteration_starttime, iteration_elapsed,
    n_iter, max_iter, segments, norm, particles, iter_summary, new_segments,
    bins,               \* system.region_set's bins (per process)
    we_driver,          \* attributes of the WE driver after run_we
    store,              \* the data manager's store as written
    durable,            \* the store as of the last flush_backing()
    trace,              \* calls made in the current pass of the loop
    submitted,          \* statuses of the segments handed to propagate()
    failure,            \* the exception that ended run(), if any
    restarts,           \* run() invocations after the first
    ghost,              \* history: the initial store, how runs ended
    handles,            \* self.we_driver and self.work_manager, and the driver
                        \* names the load_* methods were called with
    mixin,              \* a BinningMixin (or BFBinningMixin) of an analysis tool
    anal_h5file,        \* the binning group of the tool's analysis file
    bin_call            \* one bin given to the bin-local resampling on its own:
                        \* the particles, the target count and the result

locals == <<run_killtime, iteration_starttime, iteration_elapsed, n_iter, max_iter,
            segments, norm, particles, iter_summary, new_segments>>
config == <<is_server, runtime_config, dynamics, handles, bin_call, mixin, anal_h5file>>
vars == <<pc, config, now, locals, bins, we_driver, store, durable, trace, submitted,
          failure, restarts, ghost>>

\* a fresh process: nothing computed yet, every bin empty
FreshLocals ==
    /\ run_killtime = 0 /\ iteration_starttime = 0 /\ iteration_elapsed = 0
    /\ n_iter = 0 /\ max_iter = 0 /\ segments = <<>> /\ norm = RZero
    /\ particles = <<>> /\ iter_summary = ZeroSummary /\ new_segments = <<>>

Constructed ==
    /\ pc = "start"
    /\ is_server \in BOOLEAN
    /\ runtime_config \in [max_iterations : {None} \cup 0..MaxIterations,
                           max_wallclock : WallclockOptions]
    /\ dynamics \in {Dyn(f) : f \in Dynamics}
    /\ now = 0
    /\ FreshLocals
    /\ bins = EmptyBins
    /\ we_driver = NoWE
    /\ \E k \in 1..MaxInitSegs :
         \E ws \in [1..k -> InitWeights], ps \in [1..k -> Pcoords] :
            /\ InitOrdered(ws, ps)
            /\ store = InitStore([i \in 1..k |-> InitSegment(i, ws[i], ps[i])])
    /\ durable = store
    /\ trace = <<>>
    /\ submitted = <<>>
    /\ failure = "none"
    /\ restarts = 0
    /\ ghost = [init_store |-> store, clean |-> TRUE, crash_pc |-> "none",
                crash_iter |-> 0, resumed_at |-> 0]
    /\ bin_call = NoBinCall
    /\ mixin = NewMixin
    /\ anal_h5file = NoGroup

\* lines 17-29: a manager as constructed, with no driver loaded
Init ==
    /\ Constructed
    /\ handles = NoHandles

\* the handles after load_we_driver() and load_work_manager() with the default
\* resampling driver and the serial work manager
LoadedHandles == load_work_manager(load_we_driver(NoHandles, "default"), "serial")

\* a manager set up for run(): its drivers are loaded
InitRun ==
    /\ Constructed
    /\ handles = LoadedHandles

\* self.work_manager is None, or the resampling driver line 46 put there
NoWorkManager == handles.work_manager.kind # "work_manager"

\* self.we_driver is None
NoWEDriver == handles.we_driver.kind # "we_driver"

\* segments and new_segments are one list after line 325, until line 276
\* binds new_segments again: what is done to the one shows in the other
Aliased(segs) == IF new_segments = segments THEN segs ELSE new_segments

\* the particles before the first one an assertion of lines 286-296 rejects
AcceptedPrefix(ps) ==
    LET bad == {i \in 1..Len(ps) : ~ParticleAccepted(ps[i])}
    IN  IF bad = {} THEN ps
        ELSE SubSeq(ps, 1, (CHOOSE i \in bad : \A j \in bad : i <= j) - 1)

(* ---------------------------- run(): start ----------------------------- *)
Fail(why) == pc' = "failed" /\ failure' = why

\* a worker that reads the store's current iteration before it delegates
RunAsWorker_ReadsStore ==
    /\ pc = "start" /\ ~is_server
    /\ IF NoWorkManager
       THEN Fail("AttributeError") /\ UNCHANGED <<trace, n_iter, segments>>
       ELSE /\ trace' = trace \o <<"prepare_workers", "work_manager.run">>
            /\ n_iter' = store.current_iteration
            /\ segments' = store.iters[store.current_iteration]
            /\ pc' = "worker_done"
            /\ UNCHANGED failure
    /\ UNCHANGED <<config, now, run_killtime, iteration_starttime, iteration_elapsed,
                   max_iter, norm, particles, iter_summary, new_segments, bins,
                   we_driver, store, durable, submitted, restarts, ghost>>

\* lines 91-93: this process is a worker
RunAsWorker ==
    /\ pc = "start" /\ ~is_server
    /\ IF NoWorkManager
       THEN \* line 91: no prepare_workers on None
            Fail("AttributeError") /\ UNCHANGED trace
       ELSE /\ trace' = trace \o <<"prepare_workers", "work_manager.run">>
            /\ pc' = "worker_done"
            /\ UNCHANGED failure
    /\ UNCHANGED <<config, now, locals, bins, we_driver, store, durable, submitted,
                   restarts, ghost>>

\* lines 91-92 and 96-108: this process is the server
RunStart ==
    /\ pc = "start" /\ is_server
    /\ IF NoWorkManager
       THEN \* line 91: no prepare_workers on None
            /\ Fail("AttributeError")
            /\ UNCHANGED <<locals, trace>>
       ELSE IF runtime_config.max_wallclock = None
       THEN \* line 99: run_starttime + None
            /\ Fail("TypeError")
            /\ trace' = trace \o <<"prepare_workers">>
            /\ UNCHANGED locals
       ELSE /\ run_killtime' = now + runtime_config.max_wallclock
            /\ iteration_elapsed' = 0
            /\ n_iter' = store.current_iteration
            /\ max_iter' = MaxIter(store.current_iteration, runtime_config.max_iterations)
            /\ segments' = store.iters[store.current_iteration]
            /\ pc' = "loop"
            /\ trace' = trace \o <<"prepare_workers">>
            /\ UNCHANGED <<iteration_starttime, norm, particles, iter_summary,
                           new_segments, failure>>
    /\ UNCHANGED <<config, now, bins, we_driver, store, durable, submitted, restarts,
                   ghost>>

(* ---------------------------- run(): the loop -------------------------- *)
Called(names) == trace' = trace \o names

\* a test of the time now alone, without the last iteration's elapsed time
WallclockExceeded_NoEstimate(max_walltime, t, elapsed, killtime) ==
    max_walltime \notin {None, 0} /\ t >= killtime

\* line 111: a limit that is set and not zero, and no time for one more pass
WallclockExceeded(max_walltime, t, elapsed, killtime) ==
    max_walltime \notin {None, 0} /\ t + elapsed >= killtime

\* a loop that stops one iteration short of the last
LoopContinues_Exclusive(n, last) == n < last

\* line 109: while n_iter <= max_iter
LoopContinues(n, last) == n <= last

\* lines 109-129: loop test, wall-clock test, weight assertion, norm
LoopTop ==
    /\ pc = "loop"
    /\ IF ~LoopContinues(n_iter, max_iter)
       THEN \* lines 333-344
            /\ pc' = "done"
            /\ UNCHANGED <<iteration_starttime, norm, trace, failure>>
       ELSE IF WallclockExceeded(runtime_config.max_wallclock, now, iteration_elapsed,
                                 run_killtime)
       THEN \* lines 112-115
            /\ pc' = "exited"
            /\ trace' = <<"shutdown">>
            /\ UNCHANGED <<iteration_starttime, norm, failure>>
       ELSE /\ iteration_starttime' = now
            /\ trace' = <<>>
            /\ IF ZeroWeightPresent(segments)
               THEN Fail("AssertionError") /\ UNCHANGED norm
               ELSE /\ norm' = RSum(Weights(segments))
                    /\ pc' = IF AllPrepared(segments) THEN "stats" ELSE "propagate"
                    /\ UNCHANGED failure
    /\ UNCHANGED <<config, now, run_killtime, iteration_elapsed, n_iter, max_iter,
                   segments, particles, iter_summary, new_segments, bins, we_driver,
                   store, durable, submitted, restarts, ghost>>

\* lines 134-178: bin statistics of a fresh iteration, stored
Stats ==
    /\ pc = "stats"
    /\ particles' = IF \A b \in 1..NBins : bins[b].count = 0
                    THEN StartParticles(segments) ELSE particles
    /\ LET b == InitialBinning(bins, segments) IN
       /\ bins' = b
       /\ IF StatsComputable(segments, b)
          THEN LET summ == StatsSummary(store.summary[n_iter], segments, b, norm) IN
               /\ iter_summary' = summ
               /\ store' = update_iter_summary(write_bin_data(store, n_iter, b),
                                               n_iter, summ)
               /\ Called(<<"write_bin_data", "update_iter_summary">>)
               /\ pc' = "prepare"
               /\ UNCHANGED failure
          ELSE /\ Fail("ValueError")
               /\ UNCHANGED <<iter_summary, store, trace>>
    /\ UNCHANGED <<config, now, run_killtime, iteration_starttime, iteration_elapsed,
                   n_iter, max_iter, segments, norm, new_segments, we_driver,
                   durable, submitted, restarts, ghost>>

\* line 182
PrepareWorkManager ==
    /\ pc = "prepare"
    /\ Called(<<"work_manager.prepare_iteration">>)
    /\ pc' = "preprocess"
    /\ UNCHANGED <<config, now, locals, bins, we_driver, store, durable, submitted,
                   failure, restarts, ghost>>

\* line 185
Preprocess ==
    /\ pc = "preprocess"
    /\ Called(<<"preprocess_iteration">>)
    /\ pc' = "propagate"
    /\ UNCHANGED <<config, now, locals, bins, we_driver, store, durable, submitted,
                   failure, restarts, ghost>>

\* the segments the work manager may fail to propagate: none, or one of them
FailureChoices(segs) ==
    {{}} \cup {{i} : i \in {j \in 1..Len(segs) : segs[j].status = SEG_STATUS_PREPARED}}

\* line 193: the whole list is handed to the work manager
Propagate ==
    /\ pc = "propagate"
    /\ submitted' = [i \in 1..Len(segments) |-> segments[i].status]
    /\ \E failing \in FailureChoices(segments) :
          segments' = Propagated(segments, dynamics, failing)
    /\ new_segments' = Aliased(segments')
    /\ \E d \in Durations : now' = now + d
    /\ Called(<<"propagate">>)
    /\ pc' = "commit_endpoints"
    /\ UNCHANGED <<config, run_killtime, iteration_starttime, iteration_elapsed, n_iter,
                   max_iter, norm, particles, iter_summary, bins,
                   we_driver, store, durable, failure, restarts, ghost>>

\* the driver without the save of line 199
CommitEndpoints_NoWrite ==
    /\ pc = "commit_endpoints"
    /\ Called(<<"update_segments">>)
    /\ pc' = "verify"
    /\ UNCHANGED <<config, now, locals, bins, we_driver, store, durable, submitted,
                   failure, restarts, ghost>>

\* line 199
CommitEndpoints ==
    /\ pc = "commit_endpoints"
    /\ store' = update_segments(store, n_iter, segments)
    /\ Called(<<"update_segments">>)
    /\ pc' = "verify"
    /\ UNCHANGED <<config, now, locals, bins, we_driver, durable, submitted, failure,
                   restarts, ghost>>

\* a driver that goes from the verification straight to the resampling
Verify_SkipPostprocess ==
    /\ pc = "verify"
    /\ Called(<<"verify">>)
    /\ IF failed_segments(segments) # {}
       THEN Fail("RuntimeError")
       ELSE pc' = "run_we" /\ UNCHANGED failure
    /\ UNCHANGED <<config, now, locals, bins, we_driver, store, durable, submitted,
                   restarts, ghost>>

\* lines 202-207
Verify ==
    /\ pc = "verify"
    /\ Called(<<"verify">>)
    /\ IF failed_segments(segments) # {}
       THEN Fail("RuntimeError")
       ELSE pc' = "postprocess" /\ UNCHANGED failure
    /\ UNCHANGED <<config, now, locals, bins, we_driver, store, durable, submitted,
                   restarts, ghost>>

\* lines 210-217
Postprocess ==
    /\ pc = "postprocess"
    /\ particles' = EndpointParticles(segments)
    /\ Called(<<"postprocess_iteration">>)
    /\ pc' = "run_we"
    /\ UNCHANGED <<config, now, run_killtime, iteration_starttime, iteration_elapsed,
                   n_iter, max_iter, segments, norm, iter_summary, new_segments, bins,
                   we_driver, store, durable, submitted, failure, restarts, ghost>>

\* line 222
RunWE ==
    /\ pc = "run_we"
    /\ IF NoWEDriver
       THEN \* line 222: no run_we on None
            Fail("AttributeError") /\ UNCHANGED <<we_driver, bins, trace>>
       ELSE /\ we_driver' = run_we(particles)
            /\ bins' = we_driver'.bins
            /\ Called(<<"run_we">>)
            /\ pc' = "report"
            /\ UNCHANGED failure
    /\ UNCHANGED <<config, now, locals, store, durable, submitted, restarts, ghost>>

\* lines 228-254: recycling statistics, stored
Report ==
    /\ pc = "report"
    /\ iter_summary' = [store.summary[n_iter] EXCEPT
                            !.target_flux = we_driver.P_recycled,
                            !.target_hits = we_driver.n_recycled]
    /\ store' = write_recycling_data(store, n_iter,
                                     <<we_driver.n_recycled, we_driver.P_recycled>>)
    /\ Called(<<"write_recycling_data">>)
    /\ pc' = "assign"
    /\ UNCHANGED <<config, now, run_killtime, iteration_starttime, iteration_elapsed,
                   n_iter, max_iter, segments, norm, particles, new_segments, bins,
                   we_driver, durable, submitted, failure, restarts, ghost>>

\* lines 258-266
Assign ==
    /\ pc = "assign"
    /\ Called(<<"assign_endpoint_types">>)
    /\ IF \A s \in we_driver.recycle_terminations \cup we_driver.merge_terminations :
             IndexOK(Len(segments), s)
       THEN /\ segments' = AssignEndpointTypes(segments, we_driver.recycle_terminations,
                                               we_driver.merge_terminations)
            /\ pc' = "commit_types"
            /\ UNCHANGED failure
       ELSE \* segments[seg_id] raises at line 262 or 266, the loops before done
            /\ Fail("IndexError")
            /\ \E recycle_order \in Orders(we_driver.recycle_terminations),
                  merge_order \in Orders(we_driver.merge_terminations) :
                  segments' = AssignUntilIndexError(segments, recycle_order, merge_order)
    /\ new_segments' = Aliased(segments')
    /\ UNCHANGED <<config, now, run_killtime, iteration_starttime, iteration_elapsed,
                   n_iter, max_iter, norm, particles, iter_summary, bins,
                   we_driver, store, durable, submitted, restarts, ghost>>

\* the driver without the save of line 268
CommitEndpointTypes_NoWrite ==
    /\ pc = "commit_types"
    /\ Called(<<"update_segments">>)
    /\ pc' = "flush_types"
    /\ UNCHANGED <<config, now, locals, bins, we_driver, store, durable, submitted,
                   failure, restarts, ghost>>

\* line 268
CommitEndpointTypes ==
    /\ pc = "commit_types"
    /\ store' = update_segments(store, n_iter, segments)
    /\ Called(<<"update_segments">>)
    /\ pc' = "flush_types"
    /\ UNCHANGED <<config, now, locals, bins, we_driver, durable, submitted, failure,
                   restarts, ghost>>

\* data_manager.flush_backing(): what is written becomes durable
flush_backing(st) == st

\* line 269
FlushTypes ==
    /\ pc = "flush_types"
    /\ durable' = flush_backing(store)
    /\ Called(<<"flush_backing">>)
    /\ pc' = "finalize"
    /\ UNCHANGED <<config, now, locals, bins, we_driver, store, submitted, failure,
                   restarts, ghost>>

\* line 272
Finalize ==
    /\ pc = "finalize"
    /\ Called(<<"finalize_iteration">>)
    /\ pc' = "materialize"
    /\ UNCHANGED <<config, now, locals, bins, we_driver, store, durable, submitted,
                   failure, restarts, ghost>>

\* lines 276-301
Materialize ==
    /\ pc = "materialize"
    /\ Called(<<"materialize">>)
    /\ IF \A i \in 1..Len(we_driver.next_iter_particles) :
             ParticleAccepted(we_driver.next_iter_particles[i])
       THEN /\ new_segments' = NewSegments(we_driver.next_iter_particles)
            /\ pc' = "commit_next"
            /\ UNCHANGED failure
       ELSE \* the segments appended (line 301) before the assertion failed
            /\ Fail("AssertionError")
            /\ new_segments' = NewSegments(AcceptedPrefix(we_driver.next_iter_particles))
    /\ UNCHANGED <<config, now, run_killtime, iteration_starttime, iteration_elapsed,
                   n_iter, max_iter, segments, norm, particles, iter_summary, bins,
                   we_driver, store, durable, submitted, restarts, ghost>>

\* lines 304-305
CommitNext ==
    /\ pc = "commit_next"
    /\ store' = dm_prepare_iteration(store, n_iter + 1, new_segments)
    /\ new_segments' = WithSegIds(new_segments)
    /\ Called(<<"data_manager.prepare_iteration">>)
    /\ pc' = "timing"
    /\ UNCHANGED <<config, now, run_killtime, iteration_starttime, iteration_elapsed,
                   n_iter, max_iter, segments, norm, particles, iter_summary, bins,
                   we_driver, durable, submitted, failure, restarts, ghost>>

\* lines 309-320
StoreTiming ==
    /\ pc = "timing"
    /\ iteration_elapsed' = now - iteration_starttime
    /\ store' = update_iter_summary(store, n_iter, iter_summary)
    /\ Called(<<"update_iter_summary">>)
    /\ pc' = "flush_next"
    /\ UNCHANGED <<config, now, run_killtime, iteration_starttime, n_iter, max_iter,
                   segments, norm, particles, iter_summary, new_segments, bins,
                   we_driver, durable, submitted, failure, restarts, ghost>>

\* line 321
FlushNext ==
    /\ pc = "flush_next"
    /\ durable' = flush_backing(store)
    /\ Called(<<"flush_backing">>)
    /\ pc' = "advance"
    /\ UNCHANGED <<config, now, locals, bins, we_driver, store, submitted, failure,
                   restarts, ghost>>

\* lines 323-325
Advance ==
    /\ pc = "advance"
    /\ n_iter' = n_iter + 1
    /\ store' = [store EXCEPT !.current_iteration = n_iter + 1]
    /\ segments' = new_segments
    /\ Called(<<"set_current_iteration">>)
    /\ pc' = "loop"
    /\ UNCHANGED <<config, now, run_killtime, iteration_starttime, iteration_elapsed,
                   max_iter, norm, particles, iter_summary, new_segments, bins,
                   we_driver, durable, submitted, failure, restarts, ghost>>

(* ---------------------------- crash and resume ------------------------- *)
Running ==
    {"start", "loop", "stats", "prepare", "preprocess", "propagate", "commit_endpoints",
     "verify", "postprocess", "run_we", "report", "assign", "commit_types",
     "flush_types", "finalize", "materialize", "commit_next", "timing", "flush_next",
     "advance"}

\* positions right after a commit: after line 199, after the flush of line
\* 269, after the flush of line 321, after line 324
AfterBarrier == {"verify", "finalize", "advance", "loop"}

\* The process dies, and its memory with it.  What was flushed survives;
\* writes made since the last flush are either lost or had already reached
\* the backing file.
Crash ==
    /\ pc \in Running
    /\ restarts < MaxRestarts
    /\ pc' = "crashed"
    /\ store' \in {durable, store}
    /\ durable' = store'
    /\ ghost' = [ghost EXCEPT !.clean = @ /\ pc \in AfterBarrier,
                              !.crash_pc = IF pc \in AfterBarrier THEN pc ELSE "other",
                              !.crash_iter = IF pc \in AfterBarrier THEN n_iter ELSE 0]
    /\ run_killtime' = 0 /\ iteration_starttime' = 0 /\ iteration_elapsed' = 0
    /\ n_iter' = 0 /\ max_iter' = 0 /\ segments' = <<>> /\ norm' = RZero
    /\ particles' = <<>> /\ iter_summary' = ZeroSummary /\ new_segments' = <<>>
    /\ bins' = EmptyBins
    /\ we_driver' = NoWE
    /\ trace' = <<>>
    /\ submitted' = <<>>
    /\ UNCHANGED <<config, now, failure, restarts>>

\* run() is started again, in a new process, on the store the last one left
Restart ==
    /\ pc = "crashed"
    /\ restarts' = restarts + 1
    /\ pc' = "start"
    /\ run_killtime' = 0 /\ iteration_starttime' = 0 /\ iteration_elapsed' = 0
    /\ n_iter' = 0 /\ max_iter' = 0 /\ segments' = <<>> /\ norm' = RZero
    /\ particles' = <<>> /\ iter_summary' = ZeroSummary /\ new_segments' = <<>>
    /\ bins' = EmptyBins
    /\ we_driver' = NoWE
    /\ trace' = <<>>
    /\ submitted' = <<>>
    /\ failure' = "none"
    /\ ghost' = [ghost EXCEPT !.resumed_at = store.current_iteration]
    /\ UNCHANGED <<config, now, store, durable>>

(* ---------------------------- specification ---------------------------- *)
Next ==
    \/ RunAsWorker
    \/ RunStart
    \/ LoopTop
    \/ Stats
    \/ PrepareWorkManager
    \/ Preprocess
    \/ Propagate
    \/ CommitEndpoints
    \/ Verify
    \/ Postprocess
    \/ RunWE
    \/ Report
    \/ Assign
    \/ CommitEndpointTypes
    \/ FlushTypes
    \/ Finalize
    \/ Materialize
    \/ CommitNext
    \/ StoreTiming
    \/ FlushNext
    \/ Advance

Spec == InitRun /\ [][Next]_vars

\* runs that may be killed and resumed, from stores of equal-weight segments
InitCrash ==
    /\ InitRun
    /\ Len(store.iters[1]) <= CrashInitSegs
    /\ \A i \in 1..Len(store.iters[1]) : store.iters[1][i].weight = Rat(1, 1)

NextCrash ==
    \/ Next
    \/ Crash
    \/ Restart

SpecCrash == InitCrash /\ [][NextCrash]_vars

(* ---------------------------- loading the drivers ---------------------- *)
\* load_we_driver(), with drivers.we_driver set to one of the names
LoadWEDriver ==
    /\ pc = "start" /\ handles.we_name = ""
    /\ \E drivername \in WEDriverNames :
          handles' = load_we_driver(handles, drivername)
    /\ UNCHANGED <<pc, is_server, runtime_config, dynamics, now, locals, bins,
                   we_driver, store, durable, trace, submitted, failure, restarts,
                   ghost, bin_call, mixin, anal_h5file>>

\* load_work_manager(), with the work manager's name one of the names
LoadWorkManager ==
    /\ pc = "start" /\ handles.wm_name = ""
    /\ \E drivername \in WorkManagerNames :
          handles' = load_work_manager(handles, drivername)
    /\ UNCHANGED <<pc, is_server, runtime_config, dynamics, now, locals, bins,
                   we_driver, store, durable, trace, submitted, failure, restarts,
                   ghost, bin_call, mixin, anal_h5file>>

NextLoad ==
    \/ LoadWEDriver
    \/ LoadWorkManager
    \/ RunAsWorker
    \/ RunStart

\* the set-up of a simulation manager before run(): the drivers are loaded,
\* each once, in either order
SpecLoad == Init /\ [][NextLoad]_vars

(* ---------------------------- resampling one bin ----------------------- *)
\* a populated bin and its target count
GiveBin ==
    /\ bin_call.stage = "none"
    /\ \E c \in 1..MaxBinCount, target \in 1..MaxTarget :
          \E ws \in [1..c -> BinWeights] :
             bin_call' = [NoBinCall EXCEPT !.stage = "given", !.lst = BinInput(ws),
                                           !.target = target]
    /\ UNCHANGED <<pc, is_server, runtime_config, dynamics, handles, now, locals,
                   bins, we_driver, store, durable, trace, submitted, failure,
                   restarts, ghost, mixin, anal_h5file>>

\* Split, for a bin below its target count
SplitGivenBin ==
    /\ bin_call.stage = "given"
    /\ Len(bin_call.lst) < bin_call.target
    /\ bin_call' = [bin_call EXCEPT !.stage = "done",
                                    !.out = SplitBin(bin_call.lst, bin_call.target)]
    /\ UNCHANGED <<pc, is_server, runtime_config, dynamics, handles, now, locals,
                   bins, we_driver, store, durable, trace, submitted, failure,
                   restarts, ghost, mixin, anal_h5file>>

\* Merge, for a bin at or above its target count
MergeGivenBin ==
    /\ bin_call.stage = "given"
    /\ Len(bin_call.lst) >= bin_call.target
    /\ LET r == MergeBin(bin_call.lst, bin_call.target, {})
       IN  bin_call' = [bin_call EXCEPT !.stage = "done", !.out = r.lst, !.mt = r.mt]
    /\ UNCHANGED <<pc, is_server, runtime_config, dynamics, handles, now, locals,
                   bins, we_driver, store, durable, trace, submitted, failure,
                   restarts, ghost, mixin, anal_h5file>>

NextBin ==
    \/ GiveBin
    \/ SplitGivenBin
    \/ MergeGivenBin

\* the bin-local resampling on its own, beside one fixed simulation manager
InitBin ==
    /\ Init
    /\ is_server
    /\ runtime_config = [max_iterations |-> 0, max_wallclock |-> 0]
    /\ dynamics = Dyn(<<1, 2, 0>>)
    /\ store = InitStore(<<InitSegment(1, <<1, 1>>, InitialPcoord)>>)

SpecBin == InitBin /\ [][NextBin]_vars

(* ---------------------------- an analysis tool that bins --------------- *)
\* the simulation manager's side of the state
driver ==
    <<pc, is_server, runtime_config, dynamics, handles, now, locals, bins, we_driver,
      store, durable, trace, submitted, failure, restarts, ghost, bin_call>>

\* the iteration ranges an analysis may ask for
IterRanges == { <<f, l>> \in (1..MaxIterRange) \X (1..MaxIterRange) : f <= l }

\* the hashes a binning group may carry from an earlier analysis
StoredHashes ==
    {<<>>} \cup { identity_hash([type |-> "RectilinearRegionSet", bounds |-> b]).digest :
                    b \in {<<<<0, 1>>>>, <<<<0, 1, 2>>>>} }

\* the binning group as an earlier analysis may have left it: none, an empty
\* one (require_binning_group), one written by the brute force mixin, which
\* records no range, or one written by BinningMixin
StoredGroups ==
    {NoGroup, [NoGroup EXCEPT !.exists = TRUE]} \cup
    { [exists |-> TRUE, datasets |-> {"bin_assignments"}, binhash |-> h,
       iter_range |-> <<>>] : h \in StoredHashes } \cup
    { [exists |-> TRUE, datasets |-> {"bin_assignments", "bin_populations"},
       binhash |-> h, iter_range |-> r] :
        h \in StoredHashes, r \in {<<>>} \cup IterRanges }

\* a call made on the mixin
Stamp(self, name) == [self EXCEPT !.calls = @ + 1, !.last = name]

\* the mixin can be called: the tool is set up and no call has raised
Callable == mixin.last # "none" /\ mixin.raised = "none" /\ mixin.calls < MaxCalls

\* the tool is constructed on an analysis file, for a range of iterations
OpenAnalysis ==
    /\ mixin.last = "none"
    /\ \E bf \in BOOLEAN, r \in IterRanges :
          mixin' = [NewMixin EXCEPT !.bf = bf, !.first_iter = r[1], !.last_iter = r[2],
                                    !.last = "__init__"]
    /\ anal_h5file' \in StoredGroups
    /\ UNCHANGED driver

ProcessArgs ==
    /\ Callable
    /\ \E binexpr \in BinExprs \cup {""}, discard \in BOOLEAN :
          mixin' = Stamp(process_args(mixin, [binexpr |-> binexpr,
                                              discard_bin_assignments |-> discard]),
                         "process_args")
    /\ UNCHANGED <<driver, anal_h5file>>

UpdateRegionSet ==
    /\ Callable
    /\ \E rs_type \in rsets \cup {"GridRegionSet"},
          args \in Boundaries \cup {FlatBoundaries} :
          mixin' = [Stamp(update_region_set(mixin, rs_type, args), "update_region_set")
                       EXCEPT !.rs_type = rs_type]
    /\ UNCHANGED <<driver, anal_h5file>>

RequireBinAssignments ==
    /\ Callable /\ ~mixin.bf
    /\ LET o == require_bin_assignments([self |-> mixin, file |-> anal_h5file])
       IN  /\ mixin' = Stamp(o.self, "require_bin_assignments")
           /\ anal_h5file' = o.file
    /\ UNCHANGED driver

BFRequireBinAssignments ==
    /\ Callable /\ mixin.bf
    /\ LET o == BF_require_bin_assignments([self |-> mixin, file |-> anal_h5file])
       IN  /\ mixin' = Stamp(o.self, "require_bin_assignments")
           /\ anal_h5file' = o.file
    /\ UNCHANGED driver

\* the helpers of the mixin, called on their own
RequireBinningGroup ==
    /\ Callable
    /\ LET o == require_binning_group([self |-> mixin, file |-> anal_h5file])
       IN  /\ mixin' = Stamp(o.self, "require_binning_group")
           /\ anal_h5file' = o.file
    /\ UNCHANGED driver

DeleteBinningGroup ==
    /\ Callable
    /\ LET o == delete_binning_group([self |-> mixin, file |-> anal_h5file])
       IN  /\ mixin' = Stamp(o.self, "delete_binning_group")
           /\ anal_h5file' = o.file
    /\ UNCHANGED driver

AssignToBins ==
    /\ Callable
    /\ LET o == IF mixin.bf THEN BF_assign_to_bins([self |-> mixin, file |-> anal_h5file])
                ELSE assign_to_bins([self |-> mixin, file |-> anal_h5file])
       IN  /\ mixin' = Stamp(o.self, "assign_to_bins")
           /\ anal_h5file' = o.file
    /\ UNCHANGED driver

RecordDataBinhash ==
    /\ Callable
    /\ LET o == record_data_binhash([self |-> mixin, file |-> anal_h5file])
       IN  /\ mixin' = Stamp(o.self, "record_data_binhash")
           /\ anal_h5file' = o.file
    /\ UNCHANGED driver

NextBinning ==
    \/ OpenAnalysis
    \/ ProcessArgs
    \/ UpdateRegionSet
    \/ RequireBinAssignments
    \/ BFRequireBinAssignments
    \/ RequireBinningGroup
    \/ DeleteBinningGroup
    \/ AssignToBins
    \/ RecordDataBinhash

\* an analysis tool, beside one fixed simulation manager
SpecBinning == InitBin /\ [][NextBinning]_vars

(* ---------------------------- a faulty resampler ----------------------- *)
\* run_we of a resampler that breaks its contract: beside what it did, it
\* reports one more segment of the iteration as recycled, as merged, or both
RunWEFaulty ==
    /\ pc = "run_we" /\ ~NoWEDriver
    /\ \E i \in 1..Len(segments), fault \in {"recycled", "merged", "both"} :
          LET out == run_we(particles)
              s == segments[i].seg_id
          IN  we_driver' =
                 [out EXCEPT
                    !.recycle_terminations =
                        IF fault \in {"recycled", "both"} THEN @ \cup {s} ELSE @,
                    !.merge_terminations =
                        IF fault \in {"merged", "both"} THEN @ \cup {s} ELSE @]
    /\ bins' = we_driver'.bins
    /\ Called(<<"run_we">>)
    /\ pc' = "report"
    /\ UNCHANGED <<config, now, locals, store, durable, submitted, failure, restarts,
                   ghost>>

\* the ways a particle handed back by the resampler can be malformed
ParticleFaults ==
    {"parents_without_primary", "no_seg_id", "no_parents", "none_parent",
     "seg_id_with_primary"}

\* particle p with its lineage fields malformed in one way; s is a seg_id of
\* the iteration
Malformed(p, s, fault) ==
    CASE fault = "parents_without_primary" ->
            [p EXCEPT !.seg_id = s, !.p_parent_id = None, !.parent_ids = {s}]
      [] fault = "no_seg_id" ->
            [p EXCEPT !.seg_id = None, !.p_parent_id = None, !.parent_ids = {}]
      [] fault = "no_parents" ->
            [p EXCEPT !.seg_id = None, !.p_parent_id = s, !.parent_ids = {}]
      [] fault = "none_parent" ->
            [p EXCEPT !.seg_id = None, !.p_parent_id = s, !.parent_ids = {s, None}]
      [] fault = "seg_id_with_primary" ->
            [p EXCEPT !.seg_id = s, !.p_parent_id = s, !.parent_ids = {s}]

\* run_we of a resampler that hands back one malformed particle among the
\* particles of the next iteration
RunWEMalformed ==
    /\ pc = "run_we" /\ ~NoWEDriver
    /\ LET out == run_we(particles) IN
       \E k \in 1..Len(out.next_iter_particles), i \in 1..Len(segments),
          fault \in ParticleFaults :
          we_driver' =
             [out EXCEPT !.next_iter_particles[k] = Malformed(@, segments[i].seg_id, fault)]
    /\ bins' = we_driver'.bins
    /\ Called(<<"run_we">>)
    /\ pc' = "report"
    /\ UNCHANGED <<config, now, locals, store, durable, submitted, failure, restarts,
                   ghost>>

\* run_we of a resampler that reports, beside what it did, a seg_id that is
\* no index of the segments of the iteration
RunWEOutOfRange ==
    /\ pc = "run_we" /\ ~NoWEDriver
    /\ \E s \in {Len(segments), Len(segments) + 5}, fault \in {"recycled", "merged"} :
          LET out == run_we(particles)
          IN  we_driver' =
                 [out EXCEPT
                    !.recycle_terminations = IF fault = "recycled" THEN @ \cup {s} ELSE @,
                    !.merge_terminations = IF fault = "merged" THEN @ \cup {s} ELSE @]
    /\ bins' = we_driver'.bins
    /\ Called(<<"run_we">>)
    /\ pc' = "report"
    /\ UNCHANGED <<config, now, locals, store, durable, submitted, failure, restarts,
                   ghost>>

NextFaulty ==
    \/ Next
    \/ RunWEFaulty
    \/ RunWEMalformed
    \/ RunWEOutOfRange

\* runs on equal-weight stores with a resampler that may break its contract
SpecFaulty == InitCrash /\ [][NextFaulty]_vars

(* ---------------------------- an uninterrupted run --------------------- *)
\* One pass of the loop (lines 109-325) as a function, for a process that is
\* never killed and a work manager that completes every segment: the store,
\* the segments and the bins the pass leaves; ok is FALSE if it raises.
OnePass(st, n, segs, bns, dyn) ==
    LET b == InitialBinning(bns, segs)
        st1 == update_iter_summary(write_bin_data(st, n, b), n,
                    StatsSummary(st.summary[n], segs, b, RSum(Weights(segs))))
        segs1 == Propagated(segs, dyn, {})
        st2 == update_segments(st1, n, segs1)
        we == run_we(EndpointParticles(segs1))
        summ == [st2.summary[n] EXCEPT !.target_flux = we.P_recycled,
                                       !.target_hits = we.n_recycled]
        st3 == write_recycling_data(st2, n, <<we.n_recycled, we.P_recycled>>)
        segs2 == AssignEndpointTypes(segs1, we.recycle_terminations,
                                     we.merge_terminations)
        st4 == update_segments(st3, n, segs2)
        new == NewSegments(we.next_iter_particles)
        st5 == dm_prepare_iteration(st4, n + 1, new)
        st6 == update_iter_summary(st5, n, summ)
    IN  IF ZeroWeightPresent(segs) \/ ~StatsComputable(segs, b)
        THEN [ok |-> FALSE, store |-> st, segments |-> segs, bins |-> bns]
        ELSE [ok |-> TRUE,
              store |-> [st6 EXCEPT !.current_iteration = n + 1],
              segments |-> WithSegIds(new),
              bins |-> we.bins]

\* the store after passes n..last of one process, if all of them succeed
RECURSIVE Passes(_, _, _, _, _, _)
Passes(st, n, last, segs, bns, dyn) ==
    IF n > last THEN [ok |-> TRUE, store |-> st]
    ELSE LET r == OnePass(st, n, segs, bns, dyn)
         IN  IF r.ok THEN Passes(r.store, n + 1, last, r.segments, r.bins, dyn)
             ELSE [ok |-> FALSE, store |-> st]

\* run() on store st up to iteration last, never interrupted
Uninterrupted(st, last, dyn) ==
    Passes(st, st.current_iteration, last, st.iters[st.current_iteration],
           EmptyBins, dyn)

(* ---------------------------- properties ------------------------------- *)
InTrace(name) == \E i \in 1..Len(trace) : trace[i] = name

\* positions of the driver between a successful verification and ADVANCE
AfterVerify ==
    {"postprocess", "run_we", "report", "assign", "commit_types", "flush_types",
     "finalize", "materialize", "commit_next", "timing", "flush_next", "advance"}

RestOfIteration ==
    {"postprocess_iteration", "run_we", "assign_endpoint_types", "finalize_iteration",
     "data_manager.prepare_iteration", "set_current_iteration"}

PropagationFailed == pc = "failed" /\ failure = "RuntimeError"

\* C1: if a segment is not COMPLETE after propagate(), the run fails and
\* nothing of the rest of the iteration happens: the driver never goes past
\* the verification with such a segment, and in the failed run none of
\* postprocess_iteration, run_we, the endpoint-type assignment,
\* finalize_iteration, prepare_iteration(n+1) was called and
\* current_iteration is still n.
C1_FailedPropagationStopsIteration ==
    /\ pc \in AfterVerify =>
         \A i \in 1..Len(segments) : segments[i].status = SEG_STATUS_COMPLETE
    /\ PropagationFailed =>
         /\ \A name \in RestOfIteration : ~InTrace(name)
         /\ store.current_iteration = n_iter
         /\ n_iter + 1 \notin DOMAIN store.iters

\* a run that failed in its second iteration with one segment FAILED and
\* another COMPLETE
C1_Witness ==
    /\ PropagationFailed
    /\ n_iter = 2
    /\ \E i, j \in 1..Len(segments) :
         /\ segments[i].status = SEG_STATUS_FAILED
         /\ segments[j].status = SEG_STATUS_COMPLETE

\* C2 as stated: when the run aborts on a FAILED segment, the store still
\* shows every segment of iteration n PREPARED and current_iteration = n.
C2_StoreStillPrepared ==
    PropagationFailed =>
        /\ AllPrepared(store.iters[n_iter])
        /\ store.current_iteration = n_iter

\* C2 amended: when the run aborts on a FAILED segment, update_segments has
\* already written the attempt's results: the store shows every segment of
\* iteration n as the work manager left it (the failed ones FAILED); only
\* the image of the last flush still shows them all PREPARED; and
\* current_iteration still equals n.
C2_StoreShowsResults ==
    PropagationFailed =>
        /\ store.iters[n_iter] = segments
        /\ \E i \in 1..Len(segments) : store.iters[n_iter][i].status = SEG_STATUS_FAILED
        /\ AllPrepared(durable.iters[n_iter])
        /\ store.current_iteration = n_iter

\* a failed run whose store shows a FAILED and a COMPLETE segment
C2_Witness ==
    /\ PropagationFailed
    /\ \E i, j \in 1..Len(segments) :
         /\ store.iters[n_iter][i].status = SEG_STATUS_FAILED
         /\ store.iters[n_iter][j].status = SEG_STATUS_COMPLETE

\* C3 as stated: each of the four commits is flushed before the driver's
\* next transition.  After COMMIT_ENDPOINTS the flushed image shows the
\* statuses written; after COMMIT_ENDPOINT_TYPES and after COMMIT_NEXT the
\* flushed image equals the store; after ADVANCE the flushed image carries
\* the new current_iteration.
C3_CommitsFlushed ==
    /\ pc = "verify" => durable.iters[n_iter] = store.iters[n_iter]
    /\ pc = "finalize" => durable = store
    /\ pc = "advance" => durable = store
    /\ (pc = "loop" /\ InTrace("set_current_iteration")) =>
            durable.current_iteration = store.current_iteration

Completed == pc = "done" /\ runtime_config.max_iterations # None

\* the positions of the driver inside a pass
InPass == Running \ {"start", "loop"}

\* the steps of one pass the claim C6 names, in the order it gives
PassOrder ==
    <<"work_manager.prepare_iteration", "preprocess_iteration", "propagate",
      "update_segments", "verify", "postprocess_iteration", "run_we",
      "assign_endpoint_types", "update_segments", "finalize_iteration",
      "data_manager.prepare_iteration", "set_current_iteration">>

IsPassStep(name) == \E i \in 1..Len(PassOrder) : PassOrder[i] = name

IsPrefix(a, b) == Len(a) <= Len(b) /\ SubSeq(b, 1, Len(a)) = a

\* the store a killed and resumed run ends with is the store of an
\* uninterrupted run to the same limits.max_iterations, with exactly the
\* iterations 1..max_iterations+1 in it
C4_SameStore ==
    (Completed /\ restarts > 0 /\ ghost.clean) =>
        LET whole == Uninterrupted(ghost.init_store, runtime_config.max_iterations,
                                   dynamics)
        IN  /\ whole.ok
            /\ store = whole.store
            /\ DOMAIN store.iters = 1..(max_iter + 1)

\* the run is in the first pass it makes after the last restart
C4_FirstResumedPass ==
    restarts > 0 /\ pc \in InPass /\ n_iter = ghost.resumed_at

C4_WitnessLostWrites ==
    /\ Completed /\ restarts > 0 /\ ghost.clean
    /\ ghost.crash_pc = "verify" /\ ghost.crash_iter = 2 /\ ghost.resumed_at = 1

\* C5 as stated: the driver hands to propagate() only segments whose status
\* is PREPARED.
C5_OnlyPreparedSubmitted ==
    \A i \in 1..Len(submitted) : submitted[i] = SEG_STATUS_PREPARED

\* C6: the steps made so far in a pass are an initial part of the order
\* prepare_iteration(n), preprocess_iteration(n), propagate, update_segments,
\* verification, postprocess_iteration, run_we, endpoint-type assignment,
\* update_segments, finalize_iteration, prepare_iteration(n+1),
\* current_iteration := n+1 (the first two present in a fresh iteration,
\* absent in a resumed one): in that order and each at most once.
C6_PassOrder ==
    pc \in Running \cup {"failed", "done"} =>
        LET steps == SelectSeq(trace, IsPassStep)
        IN  \/ IsPrefix(steps, PassOrder)
            \/ IsPrefix(steps, SubSeq(PassOrder, 3, Len(PassOrder)))

\* a fresh pass and a resumed pass, each made to its end
C6_Witness ==
    /\ pc = "loop"
    /\ SelectSeq(trace, IsPassStep) = PassOrder

C6_WitnessResumed ==
    /\ pc = "loop"
    /\ SelectSeq(trace, IsPassStep) = SubSeq(PassOrder, 3, Len(PassOrder))

\* every segment of iteration n of store image st is COMPLETE and has its
\* endpoint type
Sealed(st, n) ==
    \A i \in 1..Len(st.iters[n]) :
        /\ st.iters[n][i].status = SEG_STATUS_COMPLETE
        /\ st.iters[n][i].endpoint_type \in
              {SEG_ENDPOINT_TYPE_CONTINUES, SEG_ENDPOINT_TYPE_MERGED,
               SEG_ENDPOINT_TYPE_RECYCLED}

SealedInOrder(st) ==
    /\ st.current_iteration \in DOMAIN st.iters
    /\ \A n \in DOMAIN st.iters :
         /\ (n + 1) \in DOMAIN st.iters => Sealed(st, n)
         /\ n < st.current_iteration => (n + 1) \in DOMAIN st.iters

\* C7: in the store as written and in its flushed image alike, the seed
\* segments of iteration n+1 exist only if every segment of iteration n is
\* COMPLETE with an endpoint type, and current_iteration = n+1 only if the
\* seed segments of iteration n+1 exist (and iteration n is sealed).
C7_SealedBeforeNextVisible == SealedInOrder(store) /\ SealedInOrder(durable)

\* the flushed image holds the seeds of iteration 3 while its
\* current_iteration is still behind the written one
C7_Witness ==
    /\ 3 \in DOMAIN durable.iters
    /\ store.current_iteration = 3
    /\ durable.current_iteration = 2
    /\ restarts > 0

HasEndpointType(segs, type) ==
    \E i \in 1..Len(segs) : segs[i].endpoint_type = type

\* positions inside a pass of the loop, after the checks of lines 109-123
\* C8: the seed segments of iteration n+1 weigh together what the segments
\* of iteration n weigh, for every iteration stored, and the norm computed
\* at the start of an iteration is the norm of the first iteration.
C8_NormConserved ==
    /\ \A n \in DOMAIN store.iters :
          (n + 1) \in DOMAIN store.iters =>
              RSum(Weights(store.iters[n + 1])) = RSum(Weights(store.iters[n]))
    /\ pc \in InPass => norm = RSum(Weights(ghost.init_store.iters[1]))
    /\ pc \in {"materialize", "commit_next"} =>
          RSum(Weights(particles)) = RSum(Weights(EndpointParticles(segments)))
    /\ pc = "commit_next" => RSum(Weights(new_segments)) = RSum(Weights(particles))

\* the second pass begun on the norm of the first, after a first pass that
\* recycled a segment, merged one and split a particle
C8_Witness ==
    /\ pc = "stats" /\ n_iter = 2
    /\ HasEndpointType(store.iters[1], SEG_ENDPOINT_TYPE_RECYCLED)
    /\ HasEndpointType(store.iters[1], SEG_ENDPOINT_TYPE_MERGED)
    /\ \E i \in 1..Len(segments) : segments[i].weight[2] > 1
    /\ norm[1] > 0

HasZeroWeight(segs) == \E i \in 1..Len(segs) : segs[i].weight = RZero

HasNonPositive(segs) == \E i \in 1..Len(segs) : segs[i].weight[1] <= 0

\* C9 as stated: with a segment of weight <= 0 in iteration n the run fails
\* at the start of the iteration; nothing of the pass is done, neither
\* propagate() nor a store write.
C9_NonPositiveStopsIteration ==
    (pc \in InPass \cup {"failed"} /\ HasNonPositive(segments)) =>
        /\ trace = <<>>
        /\ pc \in {"failed", "stats"}

\* C9 amended: with a segment of weight zero in iteration n the run fails
\* on the assertion at the start of the iteration, before propagate() and
\* before any store write of the iteration; a negative weight is not
\* rejected there.
C9_ZeroWeightStopsIteration ==
    (pc \in InPass \cup {"failed"} /\ failure # "TypeError"
        /\ HasZeroWeight(segments)) =>
        /\ pc = "failed" /\ failure = "AssertionError"
        /\ trace = <<>>
        /\ store.iters[n_iter] = segments

\* a zero weight among positive ones stops the iteration
C9_Witness ==
    /\ pc = "failed" /\ failure = "AssertionError"
    /\ HasZeroWeight(segments)
    /\ \E i \in 1..Len(segments) : segments[i].weight[1] > 0
    /\ store = ghost.init_store

AncestorsOf(seeds) == UNION { seeds[j].parent_ids : j \in 1..Len(seeds) }

PrimaryParentsOf(seeds) == { seeds[j].p_parent_id : j \in 1..Len(seeds) }

\* C10 as stated: once the seeds of iteration n+1 are stored, no RECYCLED or
\* MERGED seg_id of iteration n is in the parent_ids of a seed, every
\* CONTINUES seg_id is, and every segment has one of the three types.
C10_TerminatedNotInParentIds ==
    \A n \in DOMAIN store.iters :
        (n + 1) \in DOMAIN store.iters =>
            \A i \in 1..Len(store.iters[n]) :
                LET seg == store.iters[n][i]
                    anc == AncestorsOf(store.iters[n + 1])
                IN  /\ seg.endpoint_type \in
                          {SEG_ENDPOINT_TYPE_RECYCLED, SEG_ENDPOINT_TYPE_MERGED,
                           SEG_ENDPOINT_TYPE_CONTINUES}
                    /\ seg.endpoint_type # SEG_ENDPOINT_TYPE_CONTINUES
                          => seg.seg_id \notin anc
                    /\ seg.endpoint_type = SEG_ENDPOINT_TYPE_CONTINUES
                          => seg.seg_id \in anc

\* C10 amended: once the seeds of iteration n+1 are stored, every segment of
\* iteration n has one of the three types; a RECYCLED seg_id is in no seed's
\* parent_ids (its negative encoding is); a MERGED seg_id is no seed's
\* p_parent_id but stays in the parent_ids of the seed it was merged into;
\* a CONTINUES seg_id is the p_parent_id of at least one seed.
C10_TerminatedNotPrimaryParent ==
    \A n \in DOMAIN store.iters :
        (n + 1) \in DOMAIN store.iters =>
            \A i \in 1..Len(store.iters[n]) :
                LET seg == store.iters[n][i]
                    anc == AncestorsOf(store.iters[n + 1])
                    prim == PrimaryParentsOf(store.iters[n + 1])
                IN  /\ seg.endpoint_type \in
                          {SEG_ENDPOINT_TYPE_RECYCLED, SEG_ENDPOINT_TYPE_MERGED,
                           SEG_ENDPOINT_TYPE_CONTINUES}
                    /\ seg.endpoint_type = SEG_ENDPOINT_TYPE_RECYCLED
                          => seg.seg_id \notin anc /\ Sentinel(seg.seg_id) \in anc
                    /\ seg.endpoint_type = SEG_ENDPOINT_TYPE_MERGED
                          => seg.seg_id \notin prim /\ seg.seg_id \in anc
                    /\ seg.endpoint_type = SEG_ENDPOINT_TYPE_CONTINUES
                          => seg.seg_id \in prim

\* an iteration sealed with a recycled, a merged and a continuing segment
C10_Witness ==
    /\ 2 \in DOMAIN store.iters
    /\ HasEndpointType(store.iters[1], SEG_ENDPOINT_TYPE_RECYCLED)
    /\ HasEndpointType(store.iters[1], SEG_ENDPOINT_TYPE_MERGED)
    /\ HasEndpointType(store.iters[1], SEG_ENDPOINT_TYPE_CONTINUES)

SegIdsOf(segs) == { segs[i].seg_id : i \in 1..Len(segs) }

\* C11: every seed segment materialized for iteration n+1 (lines 276-301,
\* before the store numbers it) is PREPARED, has no seg_id, weighs what its
\* particle weighs, has n_parents = |parent_ids| >= 1 and p_parent_id in
\* parent_ids, and parent_ids within the seg_ids of iteration n and the
\* negative encodings of its recycled segments; a particle with p_parent_id
\* None gives p_parent_id = particle.seg_id and parent_ids = {particle.seg_id}.
C11_SeedsWellFormed ==
    pc = "commit_next" =>
        /\ Len(new_segments) = Len(we_driver.next_iter_particles)
        /\ \A i \in 1..Len(new_segments) :
              LET s == new_segments[i]
                  p == we_driver.next_iter_particles[i]
              IN  /\ s.status = SEG_STATUS_PREPARED
                  /\ s.seg_id = None
                  /\ s.weight = p.weight
                  /\ s.n_parents = Cardinality(s.parent_ids)
                  /\ s.n_parents >= 1
                  /\ s.p_parent_id \in s.parent_ids
                  /\ s.parent_ids \subseteq
                        SegIdsOf(segments) \cup
                        { Sentinel(r) : r \in we_driver.recycle_terminations }
                  /\ p.p_parent_id = None =>
                        s.p_parent_id = p.seg_id /\ s.parent_ids = {p.seg_id}

\* seeds materialized from a merged particle, from a re-injected one and from
\* an untouched one
C11_Witness ==
    /\ pc = "commit_next"
    /\ \E i \in 1..Len(new_segments) : new_segments[i].n_parents = 2
    /\ \E i \in 1..Len(new_segments) : new_segments[i].p_parent_id < 0
    /\ \E i \in 1..Len(new_segments) :
          /\ we_driver.next_iter_particles[i].p_parent_id = None
          /\ new_segments[i].p_parent_id >= 0

\* C12 as stated: with limits.max_wallclock unset run() starts normally and
\* the wall-clock test never ends the run.
C12_UnsetWallclockIsNoLimit ==
    (is_server /\ runtime_config.max_wallclock = None) =>
        /\ pc # "exited"
        /\ failure # "TypeError"

\* limits.max_wallclock is set
LimitConfigured == runtime_config.max_wallclock # None

\* line 111, 'if max_walltime and': the limit is set and is not zero
LimitInForce == runtime_config.max_wallclock \notin {None, 0}

\* one step of run() as C13 states it
C13_StepAsStated ==
    (pc = "loop" /\ n_iter <= max_iter /\ LimitConfigured
        /\ now + iteration_elapsed >= run_killtime) =>
          /\ pc' = "exited"
          /\ trace' = <<"shutdown">>
          /\ store' = store /\ durable' = durable

\* C13 as stated: with a wall-clock limit configured, whenever at the top of
\* the loop now + the last iteration's elapsed time >= run_killtime the driver
\* shuts the work manager down and exits.
C13_ExitsWheneverLimitSet == [][C13_StepAsStated]_vars

\* one step of run() as the amended C13 allows it
C13_Step ==
    /\ (pc = "loop" /\ n_iter <= max_iter /\ LimitInForce
           /\ now + iteration_elapsed >= run_killtime) =>
          /\ pc' = "exited"
          /\ trace' = <<"shutdown">>
          /\ store' = store /\ durable' = durable
          /\ failure' = "none"
    /\ (pc # "exited" /\ pc' = "exited") =>
          /\ pc = "loop" /\ LimitInForce
          /\ now + iteration_elapsed >= run_killtime
    /\ (pc = "loop" /\ n_iter <= max_iter /\ runtime_config.max_wallclock = 0) =>
          pc' \in InPass \cup {"failed"}
    /\ pc \in InPass => pc' \in InPass \cup {"loop", "failed"}
    /\ (pc \in InPass /\ pc' = "loop") => store'.current_iteration = n_iter + 1

\* C13 amended: with a wall-clock limit set and not zero, the budget is tested
\* only at the top of the loop: if now + the last iteration's elapsed time >=
\* run_killtime the driver shuts the work manager down and exits without
\* propagate() and without a store write; inside a pass no step leads to the
\* exit, a pass once begun goes on to its commit (current_iteration = n+1) or
\* to a failure. A limit set to zero is no limit: the test of line 111 is
\* false for it and every pass is begun, though now >= run_killtime throughout.
C13_WallclockOnlyAtLoopTop == [][C13_Step]_vars

\* a pass begun under a limit of zero, the kill time reached from the start
C13_WitnessZeroLimit ==
    /\ pc \in InPass /\ runtime_config.max_wallclock = 0
    /\ now + iteration_elapsed >= run_killtime

\* the exit taken before the second iteration on the estimate alone: the
\* kill time is not reached yet, one more pass would pass it
C13_Witness ==
    /\ pc = "exited"
    /\ n_iter = 2
    /\ now < run_killtime
    /\ trace = <<"shutdown">>

\* C14 as stated: at the wall-clock exit the flushed store has
\* current_iteration = the iteration about to start, with that iteration's
\* seed segments all PREPARED and every earlier iteration sealed; nothing
\* advanced in memory is missing from it.
C14_ExitLeavesDurableCurrent ==
    pc = "exited" =>
        /\ durable.current_iteration = n_iter
        /\ n_iter \in DOMAIN durable.iters
        /\ AllPrepared(durable.iters[n_iter])
        /\ \A m \in DOMAIN durable.iters : m < n_iter => Sealed(durable, m)
        /\ durable.current_iteration = store.current_iteration

\* the run is over: completed, shut down on the wall clock, failed, or
\* handed to the work manager of a worker process
Terminal == {"done", "exited", "failed", "worker_done"}

\* the positions of run() in the order of the source
PcOrder ==
    <<"start", "loop", "stats", "prepare", "preprocess", "propagate",
      "commit_endpoints", "verify", "postprocess", "run_we", "report", "assign",
      "commit_types", "flush_types", "finalize", "materialize", "commit_next",
      "timing", "flush_next", "advance">>

PcIndex(p) == CHOOSE i \in 1..Len(PcOrder) : PcOrder[i] = p

\* how far a run has come: passes made, then the position in the pass
Progress(n, p) == n * Len(PcOrder) + PcIndex(p)

\* one step of run() as C15 allows it
C15_Step ==
    /\ pc \in Running
    /\ pc' \in Running => Progress(n_iter', pc') > Progress(n_iter, pc)
    /\ (pc = "loop" /\ pc' \in InPass) =>
          /\ n_iter <= max_iter
          /\ n_iter' = n_iter
          /\ store.current_iteration = n_iter
    /\ (pc = "advance" /\ pc' = "loop") =>
          /\ n_iter' = n_iter + 1
          /\ store'.current_iteration = n_iter + 1
    /\ (pc \in InPass \cup {"loop"} /\ ~(pc = "advance" /\ pc' = "loop")) =>
          /\ n_iter' = n_iter
          /\ store'.current_iteration = store.current_iteration

\* the store a completed run leaves, and the bound on the passes of any run
C15_AtEnd ==
    /\ pc \in Running \ {"start"} => n_iter <= max_iter + 1
    /\ (pc = "done" /\ runtime_config.max_iterations # None) =>
          LET c == ghost.init_store.current_iteration
              m == runtime_config.max_iterations
          IN  IF m >= c
              THEN /\ store.current_iteration = m + 1
                   /\ DOMAIN store.iters = 1..(m + 1)
                   /\ \A k \in c..m : Sealed(store, k)
                   /\ AllPrepared(store.iters[m + 1])
              ELSE store = ghost.init_store /\ trace = <<"prepare_workers">>

\* C15: started at current_iteration = c with limits.max_iterations = m, the
\* loop enters a pass only for the current iteration n <= m; the iteration
\* number grows only by one, at the end of a pass; every step brings the run
\* further in a progress that is bounded, so the run comes to an end; a run
\* that completes leaves current_iteration = m+1 with iterations c..m sealed
\* if m >= c, and the store untouched if m < c.
C15_RunsToMaxIterations == [][C15_Step]_vars /\ []C15_AtEnd

\* a run over two iterations, completed
C15_Witness ==
    /\ pc = "done"
    /\ runtime_config.max_iterations = 2
    /\ store.current_iteration = 3
    /\ ghost.init_store.current_iteration = 1

\* a run whose limit lies before the current iteration, completed
C15_WitnessNoIteration ==
    /\ pc = "done"
    /\ runtime_config.max_iterations = 0
    /\ store = ghost.init_store

\* C16 as stated: with limits.max_iterations unset a completed run has made
\* exactly one propagate/resample pass, and current_iteration is one higher
\* than at the start.
C16_DefaultIsOneIteration ==
    (pc = "done" /\ runtime_config.max_iterations = None) =>
        /\ store.current_iteration = ghost.init_store.current_iteration + 1
        /\ DOMAIN store.iters = 1..(ghost.init_store.current_iteration + 1)

\* C17: in a process that is not the server, run() calls prepare_workers()
\* and the work manager's run() and nothing else: the data manager is never
\* read (no current iteration, no segments loaded) nor written nor flushed,
\* nothing is propagated or resampled, current_iteration stays as it was.
C17_WorkerLeavesStoreAlone ==
    ~is_server =>
        /\ pc \in {"start", "worker_done"}
        /\ pc = "worker_done" => trace = <<"prepare_workers", "work_manager.run">>
        /\ pc = "start" => trace = <<>>
        /\ n_iter = 0 /\ max_iter = 0 /\ segments = <<>>
        /\ submitted = <<>> /\ we_driver = NoWE /\ bins = EmptyBins
        /\ store = ghost.init_store /\ durable = ghost.init_store
        /\ failure = "none"

\* a worker process that has returned from run(), on a store with work to do
C17_Witness ==
    /\ ~is_server
    /\ pc = "worker_done"
    /\ Len(store.iters[1]) = 2
    /\ runtime_config.max_iterations = 2

\* positions of a pass before and after the assignment of lines 258-266
BeforeAssign ==
    {"stats", "prepare", "preprocess", "propagate", "commit_endpoints", "verify",
     "postprocess", "run_we", "report", "assign"}

AfterAssign ==
    {"commit_types", "flush_types", "finalize", "materialize", "commit_next", "timing",
     "flush_next", "advance"}

AfterCommitTypes == AfterAssign \ {"commit_types"}

\* the endpoint type C18 gives a segment
EndpointTypeFor(seg_id, recycle_terminations, merge_terminations) ==
    IF seg_id \in merge_terminations THEN SEG_ENDPOINT_TYPE_MERGED
    ELSE IF seg_id \in recycle_terminations THEN SEG_ENDPOINT_TYPE_RECYCLED
    ELSE SEG_ENDPOINT_TYPE_CONTINUES

\* C18: after the assignment every segment of iteration n is MERGED if its
\* seg_id is in merge_terminations, RECYCLED if it is in recycle_terminations
\* and not in merge_terminations, CONTINUES otherwise; in a pass begun on
\* PREPARED segments no endpoint type is set before, in memory or in the
\* store; and the second update_segments stores exactly these values.
C18_EndpointTypeByTermination ==
    /\ pc \in AfterAssign =>
          \A i \in 1..Len(segments) :
              segments[i].endpoint_type =
                  EndpointTypeFor(segments[i].seg_id, we_driver.recycle_terminations,
                                  we_driver.merge_terminations)
    /\ pc \in BeforeAssign =>
          \A i \in 1..Len(segments) :
              /\ segments[i].endpoint_type = SEG_ENDPOINT_TYPE_NOTSET
              /\ store.iters[n_iter][i].endpoint_type = SEG_ENDPOINT_TYPE_NOTSET
    /\ pc \in AfterCommitTypes => store.iters[n_iter] = segments

\* a segment reported both recycled and merged, stored as MERGED, beside a
\* segment of another type
C18_Witness ==
    /\ pc = "flush_types"
    /\ \E i \in 1..Len(segments) :
          /\ segments[i].seg_id \in we_driver.recycle_terminations
          /\ segments[i].seg_id \in we_driver.merge_terminations
          /\ store.iters[n_iter][i].endpoint_type = SEG_ENDPOINT_TYPE_MERGED
    /\ \E i \in 1..Len(segments) :
          store.iters[n_iter][i].endpoint_type # SEG_ENDPOINT_TYPE_MERGED

\* C19 as stated: a seg_id in both recycle_terminations and
\* merge_terminations stops the run before any endpoint type is stored.
C19_OverlapStopsRun ==
    (we_driver.recycle_terminations \cap we_driver.merge_terminations # {}) =>
        /\ pc \in {"report", "assign", "failed"}
        /\ \A i \in 1..Len(store.iters[n_iter]) :
              store.iters[n_iter][i].endpoint_type = SEG_ENDPOINT_TYPE_NOTSET

\* the object load_we_driver() is asked for
RequestedWEDriver(name) ==
    IF Lower(name) = "default" THEN Object("we_driver", "WEMDWEDriver")
    ELSE Object("we_driver", name)

\* C20 as stated: once load_we_driver() has been called, self.we_driver is
\* the resampling driver asked for, whatever its name, and
\* self.work_manager is what it was: unset, or the work manager loaded by
\* load_work_manager(), called before or after.
C20_LoadWEDriverKeepsWorkManager ==
    handles.we_name # "" =>
        /\ handles.we_driver = RequestedWEDriver(handles.we_name)
        /\ IF handles.wm_name = ""
           THEN handles.work_manager = NoObject
           ELSE handles.work_manager.kind = "work_manager"

(* ---------------------------- C21 -------------------------------------- *)
\* C21: bin-local resampling of a populated bin with target_count > 0 ends with
\* exactly target_count particles, whether it had to split (fewer particles
\* than the target, so no split went past the target) or to merge (more
\* particles than the target); the total weight of the bin is unchanged and
\* every particle it emits has a weight above zero.
C21_BinReachesTarget ==
    bin_call.stage = "done" =>
        /\ Len(bin_call.out) = bin_call.target
        /\ RSum(Weights(bin_call.out)) = RSum(Weights(bin_call.lst))
        /\ \A i \in 1..Len(bin_call.out) : RLess(RZero, bin_call.out[i].weight)

\* two particles split up to four in two rounds: the heaviest, of weight 3,
\* into two copies, and one of these into two again
C21_Witness ==
    /\ bin_call.stage = "done"
    /\ Len(bin_call.lst) = 2 /\ bin_call.target = 4
    /\ \E i \in 1..4 : bin_call.out[i].weight = Rat(3, 4)

\* four particles merged down to two
C21_WitnessMerge ==
    /\ bin_call.stage = "done"
    /\ Len(bin_call.lst) = 4 /\ bin_call.target = 2
    /\ bin_call.mt # {}
(* ---------------------------- C22 -------------------------------------- *)
\* the four calls of the block of lines 130-185, in the order made
BlockCalls ==
    <<"write_bin_data", "update_iter_summary", "work_manager.prepare_iteration",
      "preprocess_iteration">>

\* every segment of the iteration is still to be propagated
NoneRunYet == \A i \in 1..Len(segments) : segments[i].status = SEG_STATUS_PREPARED

RECURSIVE CountUpTo(_, _)
CountUpTo(bs, b) == IF b = 0 THEN 0 ELSE bs[b].count + CountUpTo(bs, b - 1)

\* the step that computes and stores the bin statistics
C22_StatsStep ==
    (pc = "stats" /\ pc' = "prepare") =>
        /\ bins' # bins => \A b \in 1..NBins : bins[b].count = 0
        /\ (\E b \in 1..NBins : bins[b].count # 0) => bins' = bins
        /\ CountUpTo(bins', NBins) = Len(segments)

\* where the driver stands when propagation is about to start
C22_AtPropagate ==
    /\ pc \in {"stats", "prepare", "preprocess"} => NoneRunYet
    /\ pc = "propagate" => trace = (IF NoneRunYet THEN BlockCalls ELSE <<>>)

\* C22: the block that stores the bin statistics and prepares the work manager
\* and the system (write_bin_data, update_iter_summary,
\* work_manager.prepare_iteration, system.preprocess_iteration) is run on entry
\* to an iteration exactly when every segment of it is PREPARED; with a segment
\* that is not PREPARED the driver goes straight to propagation and makes none
\* of the four calls. In the block the segments are binned on their start
\* points only if every bin count is 0, and afterwards the bin counts sum to
\* the number of segments.
C22_StatsBlockOnlyWhenFresh == []C22_AtPropagate /\ [][C22_StatsStep]_vars

\* a resumed iteration whose propagation had failed on a segment, about to be
\* propagated again without any of the four calls
C22_Witness ==
    /\ pc = "propagate" /\ trace = <<>>
    /\ ghost.resumed_at = n_iter
    /\ \E i \in 1..Len(segments) : segments[i].status = SEG_STATUS_FAILED

\* the second iteration of a process: the bins hold what the resampler left,
\* and the statistics are stored without binning again
C22_WitnessKeptBins ==
    /\ pc = "prepare" /\ n_iter = 2
    /\ ghost.resumed_at = 0
    /\ bins = we_driver.bins
(* ---------------------------- C23 -------------------------------------- *)
\* particle p is malformed in one of the ways C23 lists
C23_Rejected(p) ==
    \/ p.p_parent_id = None /\ (p.parent_ids # {} \/ p.seg_id = None)
    \/ p.p_parent_id # None
          /\ (p.parent_ids = {} \/ None \in p.parent_ids \/ p.seg_id # None)

C23_SomeRejected ==
    \E k \in 1..Len(we_driver.next_iter_particles) :
        C23_Rejected(we_driver.next_iter_particles[k])

\* materialization of a list with a malformed particle fails with an assertion
C23_Step ==
    (pc = "materialize" /\ pc' # "materialize" /\ C23_SomeRejected) =>
        /\ pc' = "failed" /\ failure' = "AssertionError"
        /\ store' = store /\ durable' = durable

\* what the run leaves when it has failed so
C23_Left ==
    (pc = "failed" /\ InTrace("materialize")) =>
        /\ ~InTrace("data_manager.prepare_iteration")
        /\ store.current_iteration = n_iter
        /\ (n_iter + 1) \notin DOMAIN store.iters
        /\ InTrace("finalize_iteration")
        /\ durable = store
        /\ \A i \in 1..Len(store.iters[n_iter]) :
              store.iters[n_iter][i].endpoint_type =
                  EndpointTypeFor(store.iters[n_iter][i].seg_id,
                                  we_driver.recycle_terminations,
                                  we_driver.merge_terminations)

\* C23: materialization of the next iteration rejects malformed resampler
\* output: a particle without p_parent_id that has parents or no seg_id, and a
\* particle with p_parent_id that has no parents, a None among its parents or
\* a seg_id, each make the run fail with an assertion. Then
\* data_manager.prepare_iteration(n+1) is never called and current_iteration
\* stays n, while the endpoint types of iteration n have been committed and
\* finalize_iteration(n) has been called.
C23_MalformedOutputRejected == []C23_Left /\ [][C23_Step]_vars

\* a run failed on a particle that has a None among its parents
C23_Witness ==
    /\ pc = "failed" /\ failure = "AssertionError" /\ InTrace("materialize")
    /\ \E k \in 1..Len(we_driver.next_iter_particles) :
          LET p == we_driver.next_iter_particles[k]
          IN  p.p_parent_id # None /\ None \in p.parent_ids /\ p.seg_id = None
                /\ p.parent_ids # {None}
(* ---------------------------- C24 -------------------------------------- *)
\* the assignments stored in the binning group can serve the mixin as it is:
\* nothing asks to discard them, the dataset exists, the range recorded covers
\* the one asked for (not looked at by the brute force mixin) and the hash
\* recorded is the current one
C24_Reusable ==
    /\ ~mixin.discard_bin_assignments
    /\ "bin_assignments" \in anal_h5file.datasets
    /\ \/ mixin.bf
       \/ /\ anal_h5file.iter_range # <<>>
          /\ anal_h5file.iter_range[1] <= mixin.first_iter
          /\ anal_h5file.iter_range[2] >= mixin.last_iter
    /\ anal_h5file.binhash = mixin.region_set_hash.digest

\* the binning group as a computation from nothing leaves it
C24_Recomputed(m, group) ==
    /\ group.exists
    /\ group.binhash = m.region_set_hash.digest
    /\ IF m.bf
       THEN group.datasets = {"bin_assignments"} /\ group.iter_range = <<>>
       ELSE /\ group.datasets = {"bin_assignments", "bin_populations"}
            /\ group.iter_range = <<m.first_iter, m.last_iter>>

\* a call of require_bin_assignments() that returns
C24_Step ==
    (/\ mixin'.last = "require_bin_assignments" /\ mixin'.calls = mixin.calls + 1
     /\ mixin'.raised = "none") =>
        IF C24_Reusable
        THEN anal_h5file' = anal_h5file
        ELSE C24_Recomputed(mixin', anal_h5file')

\* the binning group after a call that returned
C24_Coherent ==
    (mixin.last = "require_bin_assignments" /\ mixin.raised = "none") =>
        /\ mixin.binning_h5group = "binning"
        /\ anal_h5file.exists
        /\ "bin_assignments" \in anal_h5file.datasets
        /\ mixin.region_set # NoRegionSet
        /\ anal_h5file.binhash = <<mixin.region_set.type, mixin.region_set.bounds>>

\* C24: require_bin_assignments() uses the stored assignments only if
\* discard_bin_assignments is false, the dataset bin_assignments exists, the
\* iteration range recorded covers the one asked for and the hash recorded is
\* the current region_set_hash; in every other case it deletes the binning
\* group and computes the assignments again. After it returns, whatever calls
\* of process_args, update_region_set and require_bin_assignments came before,
\* the binning group exists, holds bin_assignments and records the hash of
\* the current region set. The brute force mixin does the same without the
\* test of the iteration range.
C24_BinAssignmentsCoherent == []C24_Coherent /\ [][C24_Step]_vars

\* assignments computed again for a Voronoi region set that replaced the one
\* of process_args: no stored group carried its hash
C24_Witness ==
    /\ mixin.last = "require_bin_assignments" /\ mixin.raised = "none"
    /\ ~mixin.bf /\ mixin.calls = 3
    /\ mixin.region_set.type = "VoronoiRegionSet"
    /\ mixin.from_expr.exc = "none"
    /\ anal_h5file.binhash = <<"VoronoiRegionSet", mixin.region_set.bounds>>

\* stored assignments of iterations 1..2 used for an analysis of iteration 2
C24_WitnessReused ==
    /\ mixin.last = "require_bin_assignments" /\ mixin.raised = "none"
    /\ ~mixin.bf
    /\ mixin.first_iter = 2 /\ mixin.last_iter = 2
    /\ anal_h5file.iter_range = <<1, 2>>

\* the brute force mixin using stored assignments that carry no range
C24_WitnessBruteForce ==
    /\ mixin.last = "require_bin_assignments" /\ mixin.raised = "none"
    /\ mixin.bf
    /\ anal_h5file.datasets = {"bin_assignments", "bin_populations"}

(* ---------------------------- C25 -------------------------------------- *)
\* the four fields of mixin m that describe the partition
PartitionFields(m) == <<m.region_set, m.n_bins, m.n_dim, m.region_set_hash>>

\* a call of update_region_set()
C25_Step ==
    (mixin'.last = "update_region_set" /\ mixin'.calls = mixin.calls + 1) =>
        /\ mixin'.rs_type \notin
              {"RectilinearRegionSet", "PiecewiseRegionSet", "VoronoiRegionSet"} =>
                /\ mixin'.raised = "ValueError"
                /\ PartitionFields(mixin') = PartitionFields(mixin)
        /\ mixin'.raised # "none" => PartitionFields(mixin') = PartitionFields(mixin)
        /\ mixin'.raised = "none" =>
                /\ mixin'.region_set # NoRegionSet
                /\ mixin'.region_set.type = mixin'.rs_type

\* the four fields after a call that did not raise
C25_Together ==
    (mixin.last \in {"process_args", "update_region_set"} /\ mixin.raised = "none") =>
        /\ mixin.region_set # NoRegionSet
        /\ mixin.n_bins = NumBins(mixin.region_set)
        /\ mixin.n_dim = NDim(mixin.region_set)
        /\ mixin.region_set_hash = identity_hash(mixin.region_set)

\* C25: update_region_set() with an rs_type other than RectilinearRegionSet,
\* PiecewiseRegionSet and VoronoiRegionSet raises ValueError and leaves
\* region_set, n_bins, n_dim and region_set_hash as they were; with one of
\* the three it replaces all four together, so that after every successful
\* process_args or update_region_set n_bins is the number of bins of
\* region_set and region_set_hash is region_set.identity_hash().
C25_RegionSetFieldsTogether == []C25_Together /\ [][C25_Step]_vars

\* a rectilinear region set given as --binexpr, replaced by a Voronoi one of
\* two bins
C25_Witness ==
    /\ mixin.last = "update_region_set" /\ mixin.raised = "none" /\ mixin.calls = 2
    /\ mixin.from_expr.exc = "none"
    /\ mixin.from_expr.value.bounds = <<<<0, 1>>>>
    /\ mixin.region_set.type = "VoronoiRegionSet" /\ mixin.n_bins = 2

\* an rs_type that is not supported, given after process_args
C25_WitnessRejected ==
    /\ mixin.last = "update_region_set" /\ mixin.raised = "ValueError"
    /\ mixin.rs_type = "GridRegionSet"
    /\ mixin.region_set = SystemRegionSet /\ mixin.n_bins = 2

(* ---------------------------- C26 -------------------------------------- *)
\* C26 as stated: region_set_from_expr() returns a region set or raises; it
\* never returns None, so process_args never goes on with region_set = None.
C26_NeverReturnsNone ==
    mixin.last = "process_args" =>
        /\ ~(mixin.from_expr.exc = "none" /\ mixin.from_expr.value = NoRegionSet)
        /\ mixin.raised # "AttributeError"

\* a TypeError raised by the expression itself, whose message does not say
\* 'has no len': region_set_from_expr() returned None, process_args stored it
\* and failed on it at line 54
C26_ReturnedNone ==
    /\ mixin.last = "process_args"
    /\ mixin.from_expr = Returned(NoRegionSet)
    /\ mixin.region_set = NoRegionSet /\ mixin.raised = "AttributeError"
====
